---- MODULE Spec2Model ----
(***************************************************************************)
(* Messaging core of the marketplace application: identity normalisation,  *)
(* getOrCreateChat, sendMessage and markMessagesAsRead of the Firestore    *)
(* chat service, run by independent clients against one shared store.      *)
(* Every awaited store round trip is one atomic step; the steps of         *)
(* different clients interleave freely.                                     *)
(* Strings are sequences of one-character strings so that includes, split, *)
(* trim and safeId are computed as the code computes them.                 *)
(***************************************************************************)
EXTENDS Naturals, Sequences, FiniteSets, TLC

VARIABLES chats, messages, clock, pc, loc, calls, createdBy, hist

\* normalizeUserId and the seller lookup of ProductDetail, applied to one input.
VARIABLES rawHandle, identity, listing, sellerEmail

resolveVars == <<rawHandle, identity, listing, sellerEmail>>

\* Typing presence of the Supabase chat service and its chat screen.
VARIABLES running, selectedChat, typingTimer, outbox, listening, inbox,
          remoteIsTyping, heard, keystrokes

presenceVars ==
  <<running, selectedChat, typingTimer, outbox, listening, inbox, remoteIsTyping, heard, keystrokes>>

\* The chat screen of each client on the Firestore service: who is signed in,
\* and its subscription (subscribeToChats or subscribeToMessages).
VARIABLES me, sub

syncVars == <<me, sub>>

storeVars == <<chats, messages, clock, pc, loc, calls, createdBy, hist>>

\* The Supabase chat service: its tables, the calls of its clients, and one
\* followed listener (listenToMessages or listenToUserChats).
VARIABLES supaChats, chat_messages, supaClock, supaPc, supaLoc, supaCalls, supaHist, channel

supaVars ==
  <<supaChats, chat_messages, supaClock, supaPc, supaLoc, supaCalls, supaHist, channel>>

\* The push trigger of the Cloud Functions: the fcm_tokens collection, the
\* invocation of the trigger for each message, and the notifications sent.
VARIABLES fcm_tokens, trigger, sent

pushVars == <<fcm_tokens, trigger, sent>>

extVars == <<resolveVars, presenceVars, syncVars, supaVars, pushVars>>

vars == <<chats, messages, clock, pc, loc, calls, createdBy, hist, extVars>>

(***************************************************************************)
(* Bounds of the model.                                                    *)
(***************************************************************************)
MaxOps == 3
MaxChats == 2
MaxLen == 3
MaxKeys == 2
MaxSupaOps == 3
MaxLiveOps == 2

Procs == {"p1", "p2"}

(***************************************************************************)
(* Handles handed to the service, and the user directory.                  *)
(***************************************************************************)
HP == <<"a", ".", "b", "@", "k">>
HQ == <<"a", "_", "b", "@", "k">>
HC == <<"c", "@", "k">>
HS == <<"s", "e", "l", "l", "e", "r", "_", "c">>

RawHandles == {HP, HQ, HC, HS}

\* The handles a client passes for itself: the e-mail of a signed-in user.
OwnHandles == {HP, HC}

\* The ids a client passes as senderId or userId: its own e-mail or seller reference.
SenderHandles == {HP, HS}

\* The users collection, in document-id order (the order of a query snapshot).
Users ==
  << [docId |-> HP, email |-> HP, name |-> <<"a", "l">>,
      username |-> <<"a", ".", "b">>, sellerId |-> <<>>],
     [docId |-> HC, email |-> HC, name |-> <<"c", "y">>,
      username |-> <<"c">>, sellerId |-> HS] >>

Products ==
  { [id |-> "p1", title |-> "t1", image |-> "i1"],
    [id |-> "p2", title |-> "t2", image |-> "i2"] }

\* Message texts handed to sendMessage, and what a user types into the form.
Texts == { <<"h">>, <<" ">> }
FormInputs == { <<" ", "h">>, <<" ">> }

\* The ids addDoc can draw for a chat document, and an id no document has.
ChatIds == 1..MaxChats
NoChat == 0

(***************************************************************************)
(* String primitives.                                                      *)
(***************************************************************************)
Includes(s, ch) == \E i \in 1..Len(s) : s[i] = ch

IndexOf(s, ch) == CHOOSE i \in 1..Len(s) : s[i] = ch /\ \A j \in 1..(i-1) : s[j] # ch

\* A split that keeps the whole string.
SplitFirst_Whole(s, ch) == s

\* s.split(ch)[0]
SplitFirst(s, ch) == IF Includes(s, ch) THEN SubSeq(s, 1, IndexOf(s, ch) - 1) ELSE s

IsPrefix(pre, s) == Len(pre) <= Len(s) /\ SubSeq(s, 1, Len(pre)) = pre

RECURSIVE TrimStart(_)
TrimStart(s) == IF s # <<>> /\ Head(s) = " " THEN TrimStart(Tail(s)) ELSE s

RECURSIVE TrimEnd(_)
TrimEnd(s) == IF s # <<>> /\ s[Len(s)] = " " THEN TrimEnd(SubSeq(s, 1, Len(s) - 1)) ELSE s

Trim(s) == TrimEnd(TrimStart(s))

ToUpperCase(ch) ==
  CASE ch = "a" -> "A" [] ch = "b" -> "B" [] ch = "c" -> "C" [] ch = "s" -> "S"
    [] OTHER -> ch

safeId(id) == [i \in 1..Len(id) |-> IF id[i] = "." THEN "_" ELSE id[i]]

Min(S) == CHOOSE x \in S : \A y \in S : x <= y

(***************************************************************************)
(* The user directory (userService).  A lookup returns <<>> or <<doc>>.    *)
(***************************************************************************)
FirstOrNone(docs) == IF docs = <<>> THEN <<>> ELSE <<Head(docs)>>

UsersWithDocId(id) == SelectSeq(Users, LAMBDA u : u.docId = id)
UsersWithEmail(email) == SelectSeq(Users, LAMBDA u : u.email = email)
UsersWithUsername(name) == SelectSeq(Users, LAMBDA u : u.username = name)
UsersWithSellerId(name) == SelectSeq(Users, LAMBDA u : u.sellerId = name)
UsersWithEmailPrefix(name) == SelectSeq(Users, LAMBDA u : IsPrefix(name, u.email))

getUserData(emailOrUid) == FirstOrNone(UsersWithDocId(emailOrUid))

getUserByEmail(email) ==
  IF getUserData(email) # <<>> THEN getUserData(email)
  ELSE FirstOrNone(UsersWithEmail(email))

getUserByUsername(username) ==
  IF UsersWithUsername(username) # <<>> THEN FirstOrNone(UsersWithUsername(username))
  ELSE IF UsersWithSellerId(username) # <<>> THEN FirstOrNone(UsersWithSellerId(username))
  ELSE FirstOrNone(UsersWithEmailPrefix(username))

\* userData?.name || fallback
NameOr(userData, fallback) ==
  IF userData # <<>> /\ userData[1].name # <<>> THEN userData[1].name ELSE fallback

\* A resolution that looks a username up only while no chat is stored.
normalizeUserId_WhileEmpty(userId) ==
  IF Includes(userId, "@")
  THEN [id |-> userId, name |-> NameOr(getUserByEmail(userId), SplitFirst(userId, "@"))]
  ELSE IF chats = <<>> /\ getUserByUsername(userId) # <<>>
       THEN [id |-> getUserByUsername(userId)[1].email,
             name |-> getUserByUsername(userId)[1].name]
       ELSE [id |-> userId, name |-> userId]

normalizeUserId(userId) ==
  IF Includes(userId, "@")
  THEN [id |-> userId, name |-> NameOr(getUserByEmail(userId), SplitFirst(userId, "@"))]
  ELSE IF getUserByUsername(userId) # <<>>
       THEN [id |-> getUserByUsername(userId)[1].email,
             name |-> getUserByUsername(userId)[1].name]
       ELSE [id |-> userId, name |-> userId]

(***************************************************************************)
(* Identity resolution applied to one input: normalizeUserId on a raw      *)
(* handle, and the seller lookup of ProductDetail on a listing.            *)
(***************************************************************************)
Alphabet == {"a", "b", "c", "k", "@", "."}

RECURSIVE SeqsOfLen(_)
SeqsOfLen(n) ==
  IF n = 0 THEN {<<>>}
  ELSE {Append(s, ch) : s \in SeqsOfLen(n - 1), ch \in Alphabet}

\* The handles normalizeUserId is applied to: every non-empty string of at most
\* MaxLen letters, and the handles of the directory.
Handles == UNION {SeqsOfLen(n) : n \in 1..MaxLen} \cup RawHandles

\* product.seller, product.sellerId and product.sellerEmail; <<>> is an absent field.
SellerNames == {<<>>, <<"c">>, <<"C">>, HS, <<"b">>}
SellerIds == {<<>>, HS, HC, <<"b">>}
SellerEmails == {<<>>, HC}
Listings == [seller : SellerNames, sellerId : SellerIds, sellerEmail : SellerEmails]

NoIdentity == [kind |-> "none", id |-> <<>>, name |-> <<>>]
NoListing == [seller |-> <<>>, sellerId |-> <<>>, sellerEmail |-> <<>>]

ResolveIdle ==
  /\ rawHandle = <<>>
  /\ identity = NoIdentity
  /\ listing = NoListing
  /\ sellerEmail = NoIdentity

ToLowerCase(ch) ==
  CASE ch = "A" -> "a" [] ch = "B" -> "b" [] ch = "C" -> "c" [] ch = "S" -> "s"
    [] OTHER -> ch

LowerCased(s) == [i \in 1..Len(s) |-> ToLowerCase(s[i])]

\* ProductDetail line 102.
possibleDomains ==
  << <<"@", "g", "m", "a", "i", "l", ".", "c", "o", "m">>,
     <<"@", "s", "t", "u", "d", "e", "n", "t", "s", ".", "k", "u", ".", "e", "d", "u">>,
     <<"@", "k", "u", ".", "e", "d", "u">> >>

\* sellerData?.email || null
EmailOrNull(userData) == IF userData # <<>> THEN userData[1].email ELSE <<>>

\* Lines 73-84 and 86-97: an e-mail is taken as it is, anything else is looked up.
SellerLookup(key) ==
  IF key = <<>> THEN <<>>
  ELSE IF Includes(key, "@") THEN key
  ELSE EmailOrNull(getUserByUsername(key))

\* Lines 99-112: the first constructed address the directory knows.
RECURSIVE DomainGuess(_, _)
DomainGuess(seller, i) ==
  IF i > Len(possibleDomains) THEN <<>>
  ELSE IF getUserByEmail(LowerCased(seller) \o possibleDomains[i]) # <<>>
       THEN getUserByEmail(LowerCased(seller) \o possibleDomains[i])[1].email
       ELSE DomainGuess(seller, i + 1)

\* Lines 63-112: sellerEmail, or <<>> for null.
ResolveSellerEmail(product) ==
  IF product.sellerEmail # <<>> THEN product.sellerEmail
  ELSE IF SellerLookup(product.sellerId) # <<>> THEN SellerLookup(product.sellerId)
  ELSE IF SellerLookup(product.seller) # <<>> THEN SellerLookup(product.seller)
  ELSE IF product.seller # <<>> /\ ~Includes(product.seller, "@")
       THEN DomainGuess(product.seller, 1)
       ELSE <<>>

\* normalizeUserId(rawHandle) resolves; it has no failing outcome.
NormalizeUserId_Call ==
  /\ identity = NoIdentity
  /\ identity' = [kind |-> "ok", id |-> normalizeUserId(rawHandle).id,
                   name |-> normalizeUserId(rawHandle).name]
  /\ UNCHANGED <<rawHandle, listing, sellerEmail>>
  /\ UNCHANGED <<storeVars, presenceVars, syncVars, supaVars, pushVars>>

\* ProductDetail lines 63-118: the seller's e-mail, or the alert of line 116.
HandleChatWithSeller_Resolve ==
  /\ sellerEmail = NoIdentity
  /\ sellerEmail' =
        IF ResolveSellerEmail(listing) = <<>>
        THEN [kind |-> "alert", id |-> <<>>, name |-> <<>>]
        ELSE [kind |-> "ok", id |-> ResolveSellerEmail(listing), name |-> listing.seller]
  /\ UNCHANGED <<rawHandle, identity, listing>>
  /\ UNCHANGED <<storeVars, presenceVars, syncVars, supaVars, pushVars>>

(***************************************************************************)
(* Typing presence (Supabase chat service, setTyping and listenToTyping,   *)
(* driven by handleTyping of the chat screen).  setTyping broadcasts one   *)
(* event on the channel typing:<chatId> once its channel is subscribed;    *)
(* the service keeps no typing state and schedules nothing.  A client's    *)
(* listener is a channel of its own on the same topic, so it also receives *)
(* the events its own setTyping publishes.                                 *)
(***************************************************************************)
uidOf(p) == IF p = "p1" THEN "u1" ELSE "u2"

TypingChats == {"c1", "c2"}

\* What handleTyping is called with: the content of the input field.
InputValues == {<<>>, <<"h">>}

PresenceIdle ==
  /\ running = [p \in Procs |-> TRUE]
  /\ selectedChat = [p \in Procs |-> "c1"]
  /\ typingTimer = [p \in Procs |-> FALSE]
  /\ outbox = [p \in Procs |-> <<>>]
  /\ listening = [p \in Procs |-> FALSE]
  /\ inbox = [p \in Procs |-> <<>>]
  /\ remoteIsTyping = [p \in Procs |-> FALSE]
  /\ heard = [p \in Procs |-> 0]
  /\ keystrokes = 0

\* chatService lines 203-214: the event setTyping sends when its channel is subscribed.
setTyping(p, chatId, uid, typing) ==
  outbox' = [outbox EXCEPT ![p] = Append(@, [chatId |-> chatId, uid |-> uid, typing |-> typing])]

\* Chat screen lines 100-110: publish whether the field is non-empty and restart
\* the 1500 ms timer that will publish false.
HandleTyping(p, val) ==
  /\ running[p]
  /\ keystrokes < MaxKeys
  /\ keystrokes' = keystrokes + 1
  /\ setTyping(p, selectedChat[p], uidOf(p), Len(val) > 0)
  /\ typingTimer' = [typingTimer EXCEPT ![p] = TRUE]
  /\ UNCHANGED <<running, selectedChat, listening, inbox, remoteIsTyping, heard>>
  /\ UNCHANGED <<storeVars, resolveVars, syncVars, supaVars, pushVars>>

\* Lines 107-109: the timer of a running client fires and publishes false.
TypingTimer_Fires(p) ==
  /\ running[p]
  /\ typingTimer[p]
  /\ typingTimer' = [typingTimer EXCEPT ![p] = FALSE]
  /\ setTyping(p, selectedChat[p], uidOf(p), FALSE)
  /\ UNCHANGED <<running, selectedChat, listening, inbox, remoteIsTyping, heard, keystrokes>>
  /\ UNCHANGED <<storeVars, resolveVars, syncVars, supaVars, pushVars>>

\* The client stops running (tab closed, crash, connection lost): its timer and
\* the events it has not sent yet are gone, its channels are closed.
ClientStops(p) ==
  /\ running[p]
  /\ running' = [running EXCEPT ![p] = FALSE]
  /\ typingTimer' = [typingTimer EXCEPT ![p] = FALSE]
  /\ outbox' = [outbox EXCEPT ![p] = <<>>]
  /\ listening' = [listening EXCEPT ![p] = FALSE]
  /\ inbox' = [inbox EXCEPT ![p] = <<>>]
  /\ UNCHANGED <<selectedChat, remoteIsTyping, heard, keystrokes>>
  /\ UNCHANGED <<storeVars, resolveVars, syncVars, supaVars, pushVars>>

\* Chat screen lines 70-83 with chatService lines 216-223: open a chat and
\* subscribe the typing listener on its channel.
ListenToTyping(p, chatId) ==
  /\ running[p]
  /\ ~listening[p]
  /\ selectedChat' = [selectedChat EXCEPT ![p] = chatId]
  /\ listening' = [listening EXCEPT ![p] = TRUE]
  /\ UNCHANGED <<running, typingTimer, outbox, inbox, remoteIsTyping, heard, keystrokes>>
  /\ UNCHANGED <<storeVars, resolveVars, syncVars, supaVars, pushVars>>

\* Line 225: the cancel handle removes the channel.
ListenToTyping_Cancel(p) ==
  /\ running[p]
  /\ listening[p]
  /\ listening' = [listening EXCEPT ![p] = FALSE]
  /\ inbox' = [inbox EXCEPT ![p] = <<>>]
  /\ UNCHANGED <<running, selectedChat, typingTimer, outbox, remoteIsTyping, heard, keystrokes>>
  /\ UNCHANGED <<storeVars, resolveVars, syncVars, supaVars, pushVars>>

\* The clients whose listener is subscribed to the channel of a chat.
ListenersOf(chatId) == {q \in Procs : listening[q] /\ selectedChat[q] = chatId}

\* The sequence without its i-th element.
RemoveAt(seq, i) == SubSeq(seq, 1, i - 1) \o SubSeq(seq, i + 1, Len(seq))

\* Lines 205-212: the channel of one setTyping call reports SUBSCRIBED and its
\* event is sent; the realtime server hands it to every listener of the topic.
SetTyping_Subscribed(p, i) ==
  /\ running[p]
  /\ i \in 1..Len(outbox[p])
  /\ outbox' = [outbox EXCEPT ![p] = RemoveAt(@, i)]
  /\ inbox' = [q \in Procs |->
                 IF q \in ListenersOf(outbox[p][i].chatId)
                 THEN Append(inbox[q], outbox[p][i])
                 ELSE inbox[q]]
  /\ UNCHANGED <<running, selectedChat, typingTimer, listening, remoteIsTyping, heard, keystrokes>>
  /\ UNCHANGED <<storeVars, resolveVars, syncVars, supaVars, pushVars>>

\* Every call subscribes a channel of its own (line 204) and nothing orders
\* the subscriptions of two calls: the pending events are sent in the order in
\* which their channels report SUBSCRIBED.
SetTyping_Send(p) == \E i \in 1..Len(outbox[p]) : SetTyping_Subscribed(p, i)

\* A listener that reports every event, its own included.
FromOther_Unfiltered(payload, currentUserId) == TRUE

\* Line 219: payload.uid !== currentUserId
FromOther(payload, currentUserId) == payload.uid # currentUserId

\* Lines 218-222: the listener's handler; callback is setRemoteIsTyping.
ListenToTyping_OnBroadcast(q) ==
  /\ running[q]
  /\ listening[q]
  /\ inbox[q] # <<>>
  /\ inbox' = [inbox EXCEPT ![q] = Tail(@)]
  /\ IF FromOther(Head(inbox[q]), uidOf(q))
     THEN /\ remoteIsTyping' = [remoteIsTyping EXCEPT ![q] = Head(inbox[q]).typing]
          /\ heard' = [heard EXCEPT ![q] = @ + 1]
     ELSE UNCHANGED <<remoteIsTyping, heard>>
  /\ UNCHANGED <<running, selectedChat, typingTimer, outbox, listening, keystrokes>>
  /\ UNCHANGED <<storeVars, resolveVars, syncVars, supaVars, pushVars>>

\* A chat screen before sign-in: no identity, no subscription.
NoSub == [kind |-> "none", state |-> "off", key |-> <<>>, list |-> <<>>, called |-> FALSE]

SyncIdle ==
  /\ me = [p \in Procs |-> <<>>]
  /\ sub = [p \in Procs |-> NoSub]

(***************************************************************************)
(* The Supabase chat service at rest: the chat of u1 with u2 and the chat  *)
(* of u2 with u3, as getOrCreateChat inserts them; no message, no call, no *)
(* listener.                                                               *)
(***************************************************************************)
Uids == {"u1", "u2", "u3"}
Null == "null"
\* null in a text column: a value that is no text.
NullText == <<Null>>

\* chatService.ts lines 42-47: the row getOrCreateChat inserts.
NewChatRow(users, now) ==
  [users |-> users, product_id |-> "prod1", product_title |-> <<"x">>,
   last_message |-> NullText, last_message_at |-> now]

NoSupaCall == [op |-> "none"]

NoChannel ==
  [kind |-> "none", key |-> Null, open |-> FALSE, requests |-> 0, replies |-> <<>>,
   events |-> <<>>, list |-> <<>>, called |-> FALSE]

PushIdle ==
  /\ fcm_tokens = <<>>
  /\ trigger = <<>>
  /\ sent = <<>>

SupaIdle ==
  /\ supaChats = ("c1" :> NewChatRow(<<"u1", "u2">>, 1)) @@ ("c2" :> NewChatRow(<<"u2", "u3">>, 2))
  /\ chat_messages = <<>>
  /\ supaClock = 2
  /\ supaPc = [p \in Procs |-> "idle"]
  /\ supaLoc = [p \in Procs |-> NoSupaCall]
  /\ supaCalls = 0
  /\ supaHist = [returned |-> {}, after |-> <<>>]
  /\ channel = NoChannel

(***************************************************************************)
(* Client-local state of a call.                                           *)
(***************************************************************************)
NoUser == [id |-> <<>>, name |-> <<>>]
NoProduct == [id |-> "", title |-> "", image |-> ""]
NoResult == [kind |-> "none", id |-> NoChat, err |-> ""]
NoChatData == [participants |-> <<>>, unreadCount |-> <<>>]

IdResult(id) == [kind |-> "id", id |-> id, err |-> ""]
VoidResult == [kind |-> "void", id |-> NoChat, err |-> ""]
ErrorResult(msg) == [kind |-> "error", id |-> NoChat, err |-> msg]

NoCall ==
  [op |-> "none", a |-> <<>>, b |-> <<>>, product |-> NoProduct,
   na |-> NoUser, nb |-> NoUser, chatId |-> NoChat, text |-> <<>>,
   chatData |-> NoChatData, pending |-> {}, res |-> NoResult]

NoHist ==
  [alone |-> FALSE, quiet |-> FALSE, repeat |-> FALSE, sawNone |-> FALSE,
   existing |-> {}, before |-> <<>>]

Idle(p) == pc[p] \in {"idle", "done"}

Init ==
  /\ chats = <<>>
  /\ messages = <<>>
  /\ clock = 0
  /\ pc = [p \in Procs |-> "idle"]
  /\ loc = [p \in Procs |-> NoCall]
  /\ calls = 0
  /\ createdBy = <<>>
  /\ hist = [marked |-> {}, call |-> [p \in Procs |-> NoHist]]
  /\ ResolveIdle
  /\ PresenceIdle
  /\ SyncIdle
  /\ SupaIdle /\ PushIdle

(***************************************************************************)
(* getOrCreateChat                                                         *)
(***************************************************************************)
\* A getOrCreateChat without the check of lines 96-98.
SelfChat_Unchecked(currentId, otherId) == FALSE

\* Line 96: the two normalised ids are the same user.
SelfChat(currentId, otherId) == currentId = otherId

Participants(c) == {chats[c].participants[i] : i \in 1..Len(chats[c].participants)}

\* Chats of the query where('participants', 'array-contains', userId).
ChatsContaining(userId) == {c \in DOMAIN chats : userId \in Participants(c)}

\* A getOrCreateChat that does not look for a chat of the two users.
ExistingChats_None(currentId, otherId) == {}

\* The documents of that snapshot that also hold otherId.
ExistingChats(currentId, otherId) ==
  {c \in ChatsContaining(currentId) : otherId \in Participants(c)}

\* An object literal with the two computed keys: the later key wins.
TwoKeyMap(k1, v1, k2, v2) == [k \in {k1, k2} |-> IF k = k2 THEN v2 ELSE v1]

newChatData(cur, other, product, now) ==
  [participants |-> <<cur.id, other.id>>,
   participantNames |-> TwoKeyMap(safeId(cur.id), cur.name, safeId(other.id), other.name),
   participantAvatars |-> TwoKeyMap(safeId(cur.id), ToUpperCase(cur.name[1]),
                                    safeId(other.id), ToUpperCase(other.name[1])),
   productId |-> product.id,
   productTitle |-> product.title,
   productImage |-> product.image,
   lastMessage |-> <<>>,
   lastMessageTime |-> now,
   unreadCount |-> TwoKeyMap(safeId(cur.id), 0, safeId(other.id), 0),
   createdAt |-> now]

(***************************************************************************)
(* History of the calls, kept beside the program's state.  Per client:     *)
(* alone, no other client has stepped since the running sendMessage or     *)
(* markMessagesAsRead began; quiet, none has since markMessagesAsRead      *)
(* returned; repeat, the running call repeats the client's previous        *)
(* markMessagesAsRead with nothing in between; sawNone and existing, the   *)
(* chats of the pair and of the store when getOrCreateChat began; before,  *)
(* the chat's unread counts when sendMessage began.  marked: the chats     *)
(* markMessagesAsRead was ever called on.  createdBy: the raw handles of   *)
(* the call that created each chat.                                        *)
(***************************************************************************)
HistAfter(p) ==
  [marked |-> IF loc'[p].op = "mark" THEN hist.marked \cup {loc'[p].chatId} ELSE hist.marked,
   call |->
     [q \in Procs |->
        IF q # p
        THEN [hist.call[q] EXCEPT !.alone = FALSE, !.quiet = FALSE]
        ELSE [alone |-> /\ pc'[p] # "done"
                        /\ IF Idle(p) THEN loc'[p].op \in {"send", "mark"}
                           ELSE hist.call[p].alone,
              quiet |-> pc'[p] = "done" /\ loc'[p].op = "mark",
              repeat |-> /\ pc'[p] # "done"
                         /\ IF Idle(p)
                            THEN /\ hist.call[p].quiet
                                 /\ loc[p].op = "mark" /\ loc'[p].op = "mark"
                                 /\ loc[p].a = loc'[p].a /\ loc[p].chatId = loc'[p].chatId
                            ELSE hist.call[p].repeat,
              sawNone |-> IF Idle(p)
                          THEN /\ loc'[p].op = "goc"
                               /\ ExistingChats(loc'[p].na.id, loc'[p].nb.id) = {}
                          ELSE hist.call[p].sawNone,
              existing |-> IF pc'[p] = "done" THEN {}
                           ELSE IF Idle(p)
                                THEN (IF loc'[p].op = "goc" THEN DOMAIN chats ELSE {})
                                ELSE hist.call[p].existing,
              before |-> IF pc'[p] = "done" THEN <<>>
                         ELSE IF Idle(p)
                              THEN (IF loc'[p].op = "send" /\ loc'[p].chatId \in DOMAIN chats
                                    THEN chats[loc'[p].chatId].unreadCount ELSE <<>>)
                              ELSE hist.call[p].before]]]

\* The id pool is finite: a call that may create a chat starts only while an id
\* is left for it and for every creation still in flight.
FreeChatId ==
  Cardinality(DOMAIN chats) + Cardinality({q \in Procs : pc[q] \in {"goc_query", "goc_add"}})
    < MaxChats

\* Lines 93-104: normalise both ids, reject a chat with oneself, fetch fresh names.
GetOrCreateChat_Normalize(p, currentUserId, otherUserId, product) ==
  LET cur == normalizeUserId(currentUserId)
      other == normalizeUserId(otherUserId)
      call == [NoCall EXCEPT !.op = "goc", !.a = currentUserId, !.b = otherUserId,
                 !.product = product,
                 !.na = [id |-> cur.id, name |-> NameOr(getUserByEmail(cur.id), cur.name)],
                 !.nb = [id |-> other.id, name |-> NameOr(getUserByEmail(other.id), other.name)]]
  IN /\ Idle(p)
     /\ calls < MaxOps
     /\ SelfChat(cur.id, other.id) \/ ExistingChats(cur.id, other.id) # {} \/ FreeChatId
     /\ calls' = calls + 1
     /\ IF SelfChat(cur.id, other.id)
        THEN /\ pc' = [pc EXCEPT ![p] = "done"]
             /\ loc' = [loc EXCEPT ![p] =
                          [call EXCEPT !.res = ErrorResult("Cannot start chat with yourself"),
                                       !.product = NoProduct]]
        ELSE /\ pc' = [pc EXCEPT ![p] = "goc_query"]
             /\ loc' = [loc EXCEPT ![p] = call]
     /\ UNCHANGED <<chats, messages, clock, createdBy>>
     /\ hist' = HistAfter(p)
     /\ UNCHANGED extVars

\* Lines 106-118: reuse any existing chat between the two users, the first of the
\* snapshot in document-id order.
GetOrCreateChat_Query(p) ==
  LET found == ExistingChats(loc[p].na.id, loc[p].nb.id)
  IN /\ pc[p] = "goc_query"
     /\ IF found # {}
        THEN /\ pc' = [pc EXCEPT ![p] = "done"]
             /\ loc' = [loc EXCEPT ![p].res = IdResult(Min(found)), ![p].product = NoProduct]
        ELSE /\ pc' = [pc EXCEPT ![p] = "goc_add"]
             /\ loc' = loc
     /\ UNCHANGED <<chats, messages, clock, calls, createdBy>>
     /\ hist' = HistAfter(p)
     /\ UNCHANGED extVars

\* Lines 120-146: addDoc of the new chat under a fresh auto-generated id.
GetOrCreateChat_AddDoc(p) ==
  /\ pc[p] = "goc_add"
  /\ IF loc[p].na.name = <<>> \/ loc[p].nb.name = <<>>
     THEN \* currentName[0].toUpperCase() throws on an empty name
          /\ pc' = [pc EXCEPT ![p] = "done"]
          /\ loc' = [loc EXCEPT ![p].res = ErrorResult("TypeError")]
          /\ UNCHANGED <<chats, clock, createdBy>>
     ELSE \E id \in ChatIds \ DOMAIN chats :
          /\ clock' = clock + 1
          /\ chats' = [c \in DOMAIN chats \cup {id} |->
                         IF c = id
                         THEN newChatData(loc[p].na, loc[p].nb, loc[p].product, clock')
                         ELSE chats[c]]
          /\ createdBy' = [c \in DOMAIN createdBy \cup {id} |->
                             IF c = id THEN [a |-> loc[p].a, b |-> loc[p].b]
                             ELSE createdBy[c]]
          /\ pc' = [pc EXCEPT ![p] = "done"]
          /\ loc' = [loc EXCEPT ![p].res = IdResult(id), ![p].product = NoProduct]
  /\ UNCHANGED <<messages, calls>>
  /\ hist' = HistAfter(p)
  /\ UNCHANGED extVars

\* The ids a client sends and marks with on a chat: the screen offers a user the
\* chats of its own list only.  On an id without a document, any.
CallersOf(chatId) ==
  IF chatId \in DOMAIN chats
  THEN {h \in SenderHandles : normalizeUserId(h).id \in Participants(chatId)}
  ELSE SenderHandles

(***************************************************************************)
(* sendMessage                                                             *)
(***************************************************************************)
\* Lines 165-184: normalise the sender, then addDoc of the message.
SendMessage_AddDoc(p, chatId, senderId, text) ==
  LET sender == normalizeUserId(senderId)
  IN /\ Idle(p)
     /\ calls < MaxOps
     /\ calls' = calls + 1
     /\ clock' = clock + 1
     /\ messages' = Append(messages,
                        [chatId |-> chatId, senderId |-> sender.id,
                         senderName |-> sender.name, text |-> text,
                         timestamp |-> clock', read |-> FALSE])
     /\ pc' = [pc EXCEPT ![p] = "send_get"]
     /\ loc' = [loc EXCEPT ![p] =
                  [NoCall EXCEPT !.op = "send", !.a = senderId, !.na = sender,
                                 !.chatId = chatId, !.text = text]]
     /\ UNCHANGED <<chats, createdBy>>
     /\ hist' = HistAfter(p)
     /\ UNCHANGED extVars

\* The times the server can give a write: later than every earlier write, or
\* the time of the latest one.
ServerTimes == {clock, clock + 1}

\* Lines 165-182 up to the server: the same addDoc, seen from the sending
\* client.  The server stores the message under its time; the client keeps the
\* write as pending until the acknowledgement has come back.
SendMessage_Write(p, chatId, senderId, text) ==
  LET sender == normalizeUserId(senderId)
  IN /\ Idle(p)
     /\ calls < MaxOps
     /\ calls' = calls + 1
     /\ \E t \in ServerTimes :
          /\ clock' = t
          /\ messages' = Append(messages,
                             [chatId |-> chatId, senderId |-> sender.id,
                              senderName |-> sender.name, text |-> text,
                              timestamp |-> t, read |-> FALSE])
     /\ pc' = [pc EXCEPT ![p] = "send_ack"]
     /\ loc' = [loc EXCEPT ![p] =
                  [NoCall EXCEPT !.op = "send", !.a = senderId, !.na = sender,
                                 !.chatId = chatId, !.text = text,
                                 !.pending = {Len(messages) + 1}]]
     /\ UNCHANGED <<chats, createdBy>>
     /\ hist' = HistAfter(p)
     /\ UNCHANGED extVars

\* Line 175: await addDoc resolves, the write is no longer pending.
SendMessage_Ack(p) ==
  /\ pc[p] = "send_ack"
  /\ pc' = [pc EXCEPT ![p] = "send_get"]
  /\ loc' = [loc EXCEPT ![p].pending = {}]
  /\ UNCHANGED <<chats, messages, clock, calls, createdBy>>
  /\ hist' = HistAfter(p)
  /\ UNCHANGED extVars

\* Lines 187-191 and 208-210: read the chat document; a missing one is only logged.
SendMessage_GetDoc(p) ==
  /\ pc[p] = "send_get"
  /\ IF loc[p].chatId \in DOMAIN chats
     THEN /\ pc' = [pc EXCEPT ![p] = "send_upd"]
          /\ loc' = [loc EXCEPT ![p].chatData =
                       [participants |-> chats[loc[p].chatId].participants,
                        unreadCount |-> chats[loc[p].chatId].unreadCount]]
     ELSE /\ pc' = [pc EXCEPT ![p] = "done"]
          /\ loc' = [loc EXCEPT ![p].res = VoidResult]
  /\ UNCHANGED <<chats, messages, clock, calls, createdBy>>
  /\ hist' = HistAfter(p)
  /\ UNCHANGED extVars

\* chatData.unreadCount?.[key] || 0
UnreadOr0(unreadCount, key) == IF key \in DOMAIN unreadCount THEN unreadCount[key] ELSE 0

\* Lines 198-204: the keys the update writes, one per participant other than the sender.
UnreadKeys(chatData, actualSenderId) ==
  {safeId(chatData.participants[i]) :
     i \in {j \in 1..Len(chatData.participants) : chatData.participants[j] # actualSenderId}}

\* The value written for a key: the count read by getDoc, plus one.
IncrementedUnread(chatData, key) == UnreadOr0(chatData.unreadCount, key) + 1

\* Lines 192-206: updateDoc of lastMessage, lastMessageTime and the unread counts.
SendMessage_UpdateDoc(p) ==
  LET c == loc[p].chatId
      keys == UnreadKeys(loc[p].chatData, loc[p].na.id)
  IN /\ pc[p] = "send_upd"
     /\ clock' = clock + 1
     /\ chats' = [chats EXCEPT ![c] =
                    [@ EXCEPT !.lastMessage = loc[p].text,
                              !.lastMessageTime = clock',
                              !.unreadCount =
                                 [k \in DOMAIN chats[c].unreadCount \cup keys |->
                                    IF k \in keys
                                    THEN IncrementedUnread(loc[p].chatData, k)
                                    ELSE chats[c].unreadCount[k]]]]
     /\ pc' = [pc EXCEPT ![p] = "done"]
     /\ loc' = [loc EXCEPT ![p].res = VoidResult, ![p].chatData = NoChatData]
     /\ UNCHANGED <<messages, calls, createdBy>>
     /\ hist' = HistAfter(p)
     /\ UNCHANGED extVars

\* ChatScreen lines 114-133: the form handler drops blank input and sends the rest trimmed.
HandleSendMessage(p, chatId, userId, messageInput) ==
  IF Trim(messageInput) = <<>>
  THEN /\ Idle(p)
       /\ calls < MaxOps
       /\ calls' = calls + 1
       /\ pc' = [pc EXCEPT ![p] = "done"]
       /\ loc' = [loc EXCEPT ![p] =
                    [NoCall EXCEPT !.op = "ui", !.a = userId, !.chatId = chatId,
                                   !.text = messageInput]]
       /\ UNCHANGED <<chats, messages, clock, createdBy>>
       /\ hist' = HistAfter(p)
       /\ UNCHANGED extVars
  ELSE SendMessage_AddDoc(p, chatId, userId, Trim(messageInput))

(***************************************************************************)
(* markMessagesAsRead                                                      *)
(***************************************************************************)
\* Lines 307-311: normalise the user, then updateDoc of its unread count to 0.
\* updateDoc of a missing document rejects; the catch of line 327 logs it.
MarkMessagesAsRead_Reset(p, chatId, userId) ==
  LET user == normalizeUserId(userId)
      call == [NoCall EXCEPT !.op = "mark", !.a = userId, !.na = user, !.chatId = chatId]
  IN /\ Idle(p)
     /\ calls < MaxOps
     /\ calls' = calls + 1
     /\ IF chatId \in DOMAIN chats
        THEN /\ chats' = [chats EXCEPT ![chatId].unreadCount =
                            [k \in DOMAIN @ \cup {safeId(user.id)} |->
                               IF k = safeId(user.id) THEN 0 ELSE @[k]]]
             /\ pc' = [pc EXCEPT ![p] = "mark_query"]
             /\ loc' = [loc EXCEPT ![p] = call]
        ELSE /\ chats' = chats
             /\ pc' = [pc EXCEPT ![p] = "done"]
             /\ loc' = [loc EXCEPT ![p] = [call EXCEPT !.res = VoidResult]]
     /\ UNCHANGED <<messages, clock, createdBy>>
     /\ hist' = HistAfter(p)
     /\ UNCHANGED extVars

\* The query of lines 313-318: unread messages of the chat not sent by the user.
UnreadMessagesFor(chatId, userId) ==
  {m \in DOMAIN messages :
     /\ messages[m].chatId = chatId
     /\ messages[m].senderId # userId
     /\ messages[m].read = FALSE}

\* Lines 313-321: getDocs of the query; one updateDoc is issued per document.
MarkMessagesAsRead_Query(p) ==
  LET snapshot == UnreadMessagesFor(loc[p].chatId, loc[p].na.id)
  IN /\ pc[p] = "mark_query"
     /\ IF snapshot = {}
        THEN /\ pc' = [pc EXCEPT ![p] = "done"]
             /\ loc' = [loc EXCEPT ![p].res = VoidResult]
        ELSE /\ pc' = [pc EXCEPT ![p] = "mark_upd"]
             /\ loc' = [loc EXCEPT ![p].pending = snapshot]
     /\ UNCHANGED <<chats, messages, clock, calls, createdBy>>
     /\ hist' = HistAfter(p)
     /\ UNCHANGED extVars

\* Lines 321-324: one of the issued updateDoc(message, {read: true}) lands;
\* Promise.all resolves when the last one has.
MarkMessagesAsRead_Update(p, m) ==
  /\ pc[p] = "mark_upd"
  /\ m \in loc[p].pending
  /\ messages' = [messages EXCEPT ![m].read = TRUE]
  /\ IF loc[p].pending = {m}
     THEN /\ pc' = [pc EXCEPT ![p] = "done"]
          /\ loc' = [loc EXCEPT ![p].pending = {}, ![p].res = VoidResult]
     ELSE /\ pc' = pc
          /\ loc' = [loc EXCEPT ![p].pending = @ \ {m}]
  /\ UNCHANGED <<chats, clock, calls, createdBy>>
  /\ hist' = HistAfter(p)
  /\ UNCHANGED extVars

(***************************************************************************)
(* Subscriptions of the Firestore chat service: subscribeToChats and       *)
(* subscribeToMessages.  A listener is handed the result of its query      *)
(* whenever that result has changed; the listener of subscribeToChats is   *)
(* handed an empty list when the listen fails.  One subscription is        *)
(* followed at a time.                                                     *)
(***************************************************************************)
\* { id: docItem.id, ...data }
ChatDoc(c) == [id |-> c] @@ chats[c]
MessageDoc(m) == [id |-> m] @@ messages[m]

\* orderBy('lastMessageTime', 'desc'): the latest first, equal times by document id.
LatestChat(S) ==
  CHOOSE c \in S : \A d \in S \ {c} :
     \/ chats[c].lastMessageTime > chats[d].lastMessageTime
     \/ (chats[c].lastMessageTime = chats[d].lastMessageTime /\ c > d)

RECURSIVE ByLastMessageTimeDesc(_)
ByLastMessageTimeDesc(S) ==
  IF S = {} THEN <<>>
  ELSE <<ChatDoc(LatestChat(S))>> \o ByLastMessageTimeDesc(S \ {LatestChat(S)})

\* orderBy('timestamp', 'asc')
EarliestMessage(S) ==
  CHOOSE m \in S : \A k \in S \ {m} :
     \/ messages[m].timestamp < messages[k].timestamp
     \/ (messages[m].timestamp = messages[k].timestamp /\ m < k)

RECURSIVE ByTimestampAsc(_)
ByTimestampAsc(S) ==
  IF S = {} THEN <<>>
  ELSE <<MessageDoc(EarliestMessage(S))>> \o ByTimestampAsc(S \ {EarliestMessage(S)})

\* The snapshot of a subscription's query on the store as it is.
QueryResult(s) ==
  IF s.kind = "chats" THEN ByLastMessageTimeDesc(ChatsContaining(s.key))
  ELSE ByTimestampAsc({m \in DOMAIN messages : messages[m].chatId = s.key})

\* Lines 272-282, ChatScreen line 66: subscribe to the chats of the signed-in user.
SubscribeToChats(p) ==
  /\ \A q \in Procs : sub[q] = NoSub
  /\ sub' = [sub EXCEPT ![p] = [NoSub EXCEPT !.kind = "chats", !.state = "on", !.key = me[p]]]
  /\ UNCHANGED <<me, storeVars, resolveVars, presenceVars, supaVars, pushVars>>

\* Lines 218-230: the listener of a client that has none yet.
OnSnapshot_Messages(p, chatId) ==
  /\ sub[p] = NoSub
  /\ sub' = [sub EXCEPT ![p] = [NoSub EXCEPT !.kind = "messages", !.state = "on", !.key = chatId]]
  /\ UNCHANGED <<me, storeVars, resolveVars, presenceVars, supaVars, pushVars>>

\* Lines 218-223, ChatScreen line 93: subscribe to the messages of a selected chat.
SubscribeToMessages(p, chatId) ==
  /\ \A q \in Procs : sub[q] = NoSub
  /\ OnSnapshot_Messages(p, chatId)

\* The messages of a client's own writes that are still pending: none, or the
\* one of the sendMessage it is in.
PendingWrites(p) == IF pc[p] = "send_ack" THEN loc[p].pending ELSE {}

\* timestamp of a message whose serverTimestamp() is not resolved yet: null.
NoTimestamp == 0

\* Line 180 with lines 222-230: what the listener of client p is handed.  A
\* chat list is the query's result on the store.  A message list is the
\* result on the store overlaid with the client's pending writes: a pending
\* message has no server time yet and is ordered after every message that has.
LocalView(p) ==
  IF sub[p].kind = "chats" THEN QueryResult(sub[p])
  ELSE LET S == {m \in DOMAIN messages : messages[m].chatId = sub[p].key}
           own == S \cap PendingWrites(p)
       IN ByTimestampAsc(S \ own)
            \o (IF own = {} THEN <<>>
                ELSE <<[MessageDoc(CHOOSE m \in own : TRUE) EXCEPT !.timestamp = NoTimestamp]>>)

\* Lines 232-259 and 284-291: onSnapshot hands the listener the first result
\* and every changed result; the listener maps it and calls callback.
Subscription_OnSnapshot(p) ==
  /\ sub[p].state = "on"
  /\ ~sub[p].called \/ LocalView(p) # sub[p].list
  /\ sub' = [sub EXCEPT ![p].list = LocalView(p), ![p].called = TRUE]
  /\ UNCHANGED <<me, storeVars, resolveVars, presenceVars, supaVars, pushVars>>

\* Lines 261-266 and 293-297: the listen fails and ends.  subscribeToMessages
\* logs the error; subscribeToChats calls callback([]).
Subscription_OnError(p) ==
  /\ sub[p].state = "on"
  /\ sub' = [sub EXCEPT ![p] =
               IF sub[p].kind = "chats"
               THEN [@ EXCEPT !.state = "failed", !.list = <<>>, !.called = TRUE]
               ELSE [@ EXCEPT !.state = "failed"]]
  /\ UNCHANGED <<me, storeVars, resolveVars, presenceVars, supaVars, pushVars>>

\* ChatScreen lines 72 and 106: the function onSnapshot returned is called.
Subscription_Unsubscribe(p) ==
  /\ sub[p].state = "on"
  /\ sub' = [sub EXCEPT ![p].state = "cancelled"]
  /\ UNCHANGED <<me, storeVars, resolveVars, presenceVars, supaVars, pushVars>>

(***************************************************************************)
(* The Supabase chat service (chatService.ts).  sendMessage and markAsRead *)
(* are sequences of awaited round trips; listenToMessages and              *)
(* listenToUserChats start a fetch whose reply runs a then-callback and    *)
(* open a realtime channel whose events run a handler.  removeChannel      *)
(* closes the channel; the fetch is not tied to it.                        *)
(***************************************************************************)
SupaIdleCall(p) == supaPc[p] \in {"idle", "done"}

SupaFrame == UNCHANGED <<storeVars, resolveVars, presenceVars, syncVars, pushVars>>

\* Line 73: chat.users.find(id => id !== senderId); undefined is stored as null.
FindOther(users, senderId) ==
  LET I == {i \in 1..Len(users) : users[i] # senderId}
  IN  IF I = {} THEN Null ELSE users[CHOOSE i \in I : \A j \in I : i <= j]

\* Lines 61-73: select the users of the chat; return if there is no such chat.
SendMessage_SelectUsers(p, chatId, senderId, text) ==
  /\ SupaIdleCall(p)
  /\ supaCalls < MaxSupaOps
  /\ chatId \in DOMAIN supaChats
  /\ supaCalls' = supaCalls + 1
  /\ supaLoc' = [supaLoc EXCEPT ![p] =
        [op |-> "send", chatId |-> chatId, senderId |-> senderId, text |-> text,
         receiverId |-> FindOther(supaChats[chatId].users, senderId),
         prior |-> supaHist.returned, msg |-> 0]]
  /\ supaPc' = [supaPc EXCEPT ![p] = "send_insert"]
  /\ UNCHANGED <<supaChats, chat_messages, supaClock, supaHist, channel>>
  /\ SupaFrame

\* Lines 76-84: insert the message row; an open channel on the chat gets the
\* INSERT event.
SendMessage_Insert(p) ==
  /\ supaPc[p] = "send_insert"
  /\ LET l == supaLoc[p]
         id == Len(chat_messages) + 1
         row == [id |-> id, chat_id |-> l.chatId, sender_id |-> l.senderId,
                 receiver_id |-> l.receiverId, text |-> l.text,
                 read_by |-> <<l.senderId>>, created_at |-> supaClock + 1]
     IN /\ chat_messages' = Append(chat_messages, row)
        /\ supaClock' = supaClock + 1
        /\ channel' = IF channel.kind = "messages" /\ channel.open /\ channel.key = l.chatId
                      THEN [channel EXCEPT !.events = Append(@, row)]
                      ELSE channel
        /\ supaHist' = [supaHist EXCEPT !.after = Append(@, l.prior)]
        /\ supaLoc' = [supaLoc EXCEPT ![p].msg = id]
  /\ supaPc' = [supaPc EXCEPT ![p] = "send_update"]
  /\ UNCHANGED <<supaChats, supaCalls>>
  /\ SupaFrame

\* Lines 92-101: update the chat row and return; an open channel on the chats
\* table gets the change event.
SendMessage_UpdateChat(p) ==
  /\ supaPc[p] = "send_update"
  /\ LET l == supaLoc[p]
     IN /\ supaChats' = [supaChats EXCEPT ![l.chatId].last_message = l.text,
                                          ![l.chatId].last_message_at = supaClock + 1]
        /\ supaHist' = [supaHist EXCEPT !.returned = @ \cup {l.msg}]
  /\ supaClock' = supaClock + 1
  /\ channel' = IF channel.kind = "chats" /\ channel.open
                THEN [channel EXCEPT !.events = Append(@, "change")]
                ELSE channel
  /\ supaPc' = [supaPc EXCEPT ![p] = "done"]
  /\ UNCHANGED <<chat_messages, supaLoc, supaCalls>>
  /\ SupaFrame

\* Line 242: data.read_by.includes(uid), on a list.
HasElement(list, x) == \E i \in 1..Len(list) : list[i] = x

\* Line 243: [...data.read_by, uid]
WithReader(read_by, uid) == Append(read_by, uid)

\* Lines 234-243: select read_by of the message; done if uid is in it.
MarkAsRead_Select(p, messageId, uid) ==
  /\ SupaIdleCall(p)
  /\ supaCalls < MaxSupaOps
  /\ messageId \in DOMAIN chat_messages
  /\ supaCalls' = supaCalls + 1
  /\ IF HasElement(chat_messages[messageId].read_by, uid)
     THEN /\ supaLoc' = [supaLoc EXCEPT ![p] = [op |-> "mark", messageId |-> messageId, uid |-> uid,
                                                updatedReadBy |-> chat_messages[messageId].read_by]]
          /\ supaPc' = [supaPc EXCEPT ![p] = "done"]
     ELSE /\ supaLoc' = [supaLoc EXCEPT ![p] = [op |-> "mark", messageId |-> messageId, uid |-> uid,
                                                updatedReadBy |-> WithReader(chat_messages[messageId].read_by, uid)]]
          /\ supaPc' = [supaPc EXCEPT ![p] = "mark_update"]
  /\ UNCHANGED <<supaChats, chat_messages, supaClock, supaHist, channel>>
  /\ SupaFrame

\* Lines 244-247: update read_by of the message with the list built from the select.
MarkAsRead_Update(p) ==
  /\ supaPc[p] = "mark_update"
  /\ chat_messages' = [chat_messages EXCEPT ![supaLoc[p].messageId].read_by = supaLoc[p].updatedReadBy]
  /\ supaPc' = [supaPc EXCEPT ![p] = "done"]
  /\ UNCHANGED <<supaChats, supaClock, supaLoc, supaCalls, supaHist, channel>>
  /\ SupaFrame

\* Lines 121-127 and 146-152: a row as the client's Message.
FormatMessage(m) ==
  [id |-> m.id, text |-> m.text, senderId |-> m.sender_id, createdAt |-> m.created_at,
   readBy |-> m.read_by]

\* Lines 174-181: a row as the client's Chat.
FormatChat(c) ==
  [id |-> c, users |-> supaChats[c].users, productId |-> supaChats[c].product_id,
   productTitle |-> supaChats[c].product_title, lastMessage |-> supaChats[c].last_message,
   lastMessageAt |-> supaChats[c].last_message_at]

\* .order("created_at", { ascending: true })
EarliestRow(S) == CHOOSE m \in S : \A k \in S : chat_messages[m].created_at <= chat_messages[k].created_at

RECURSIVE ByCreatedAtAsc(_)
ByCreatedAtAsc(S) ==
  IF S = {} THEN <<>>
  ELSE <<FormatMessage(chat_messages[EarliestRow(S)])>> \o ByCreatedAtAsc(S \ {EarliestRow(S)})

\* .order("last_message_at", { ascending: false })
LatestRow(S) == CHOOSE c \in S : \A d \in S : supaChats[c].last_message_at >= supaChats[d].last_message_at

RECURSIVE ByLastMessageAtDesc(_)
ByLastMessageAtDesc(S) ==
  IF S = {} THEN <<>>
  ELSE <<FormatChat(LatestRow(S))>> \o ByLastMessageAtDesc(S \ {LatestRow(S)})

\* Lines 110-114 and 166-170: the rows the listener's select returns.
SelectResult(ch) ==
  IF ch.kind = "messages"
  THEN ByCreatedAtAsc({m \in DOMAIN chat_messages : chat_messages[m].chat_id = ch.key})
  ELSE ByLastMessageAtDesc({c \in DOMAIN supaChats : HasElement(supaChats[c].users, ch.key)})


ChannelFrame ==
  UNCHANGED <<supaChats, chat_messages, supaClock, supaPc, supaLoc, supaCalls, supaHist>>

\* Lines 104-162: start the initial fetch and open the channel of the chat.
ListenToMessages(chatId) ==
  /\ channel = NoChannel
  /\ channel' = [NoChannel EXCEPT !.kind = "messages", !.key = chatId, !.open = TRUE, !.requests = 1]
  /\ ChannelFrame /\ SupaFrame

\* Lines 164-200: call fetchChats and open the channel of the chats table.
ListenToUserChats(uid) ==
  /\ channel = NoChannel
  /\ channel' = [NoChannel EXCEPT !.kind = "chats", !.key = uid, !.open = TRUE, !.requests = 1]
  /\ ChannelFrame /\ SupaFrame

\* The store answers a select of the listener.
Listener_Select ==
  /\ channel.requests > 0
  /\ channel' = [channel EXCEPT !.requests = @ - 1, !.replies = Append(@, SelectResult(channel))]
  /\ ChannelFrame /\ SupaFrame

\* Lines 115-130: the reply of the initial fetch replaces currentMessages and
\* is handed to callback.
ListenToMessages_Then(i) ==
  /\ channel.kind = "messages"
  /\ i \in 1..Len(channel.replies)
  /\ channel' = [channel EXCEPT !.list = channel.replies[i], !.called = TRUE,
                                !.replies = RemoveAt(@, i)]
  /\ ChannelFrame /\ SupaFrame

\* Lines 171-183: the reply of fetchChats is handed to callback.
FetchChats_Then(i) ==
  /\ channel.kind = "chats"
  /\ i \in 1..Len(channel.replies)
  /\ channel' = [channel EXCEPT !.list = channel.replies[i], !.called = TRUE,
                                !.replies = RemoveAt(@, i)]
  /\ ChannelFrame /\ SupaFrame

\* Lines 143-157: an INSERT event is appended to currentMessages and the list
\* is handed to callback.
ListenToMessages_OnInsert ==
  /\ channel.kind = "messages" /\ channel.open
  /\ channel.events # <<>>
  /\ channel' = [channel EXCEPT !.list = Append(@, FormatMessage(Head(channel.events))),
                                !.called = TRUE, !.events = Tail(@)]
  /\ ChannelFrame /\ SupaFrame

\* Lines 194-196: any change of the chats table calls fetchChats again.
ListenToUserChats_OnChange ==
  /\ channel.kind = "chats" /\ channel.open
  /\ channel.events # <<>>
  /\ channel' = [channel EXCEPT !.requests = @ + 1, !.events = Tail(@)]
  /\ ChannelFrame /\ SupaFrame

\* Lines 161 and 199: the function the listener returned is called.
RemoveChannel ==
  /\ channel.open
  /\ channel' = [channel EXCEPT !.open = FALSE, !.events = <<>>]
  /\ ChannelFrame /\ SupaFrame

(***************************************************************************)
(* The counter a client shows for a user of a chat (ChatScreen,            *)
(* getOtherUserInfo): chat.unreadCount[safeId(id)] || 0.                   *)
(***************************************************************************)
UnreadOf(chat, userId) == UnreadOr0(chat.unreadCount, safeId(userId))

MessagesOf(chatId) == {m \in DOMAIN messages : messages[m].chatId = chatId}

SendInProgress(chatId) ==
  \E p \in Procs : pc[p] \in {"send_get", "send_upd"} /\ loc[p].chatId = chatId

CompletedGoc(p) == pc[p] = "done" /\ loc[p].op = "goc" /\ loc[p].res.kind = "id"

(***************************************************************************)
(* Claims                                                                  *)
(***************************************************************************)

\* C1: two getOrCreateChat calls for the same pair of distinct identities, in
\* either argument order, that both began while the store held no chat of the
\* pair (so they ran concurrently) return the same chat id.
C1_SameConversationId ==
  \A p \in Procs, q \in Procs :
     ( /\ p # q /\ CompletedGoc(p) /\ CompletedGoc(q)
       /\ hist.call[p].sawNone /\ hist.call[q].sawNone
       /\ {loc[p].na.id, loc[p].nb.id} = {loc[q].na.id, loc[q].nb.id} )
     => loc[p].res.id = loc[q].res.id

\* C2: in every reachable state no two chat documents have the same set of
\* participants.
C2_OneChatPerPair ==
  \A c1 \in DOMAIN chats, c2 \in DOMAIN chats :
     Participants(c1) = Participants(c2) => c1 = c2

\* C3: every step of a getOrCreateChat call whose two handles normalise to the
\* same id ends the call with the error "Cannot start chat with yourself" and
\* leaves the chats and the messages as they were.
C3_SelfChatRejected ==
  [][\A p \in Procs :
       ( /\ loc'[p] # loc[p]
         /\ loc'[p].op = "goc"
         /\ loc'[p].na.id = loc'[p].nb.id )
       => ( /\ pc'[p] = "done"
            /\ loc'[p].res = ErrorResult("Cannot start chat with yourself")
            /\ chats' = chats
            /\ messages' = messages )]_vars

\* C3 witness: with a chat stored, a call with two different raw handles of
\* one identity (the seller reference and the e-mail) has been rejected.
C3_Witness ==
  \E p \in Procs :
     /\ pc[p] = "done" /\ loc[p].op = "goc"
     /\ loc[p].a # loc[p].b /\ loc[p].na.id = loc[p].nb.id
     /\ loc[p].res.kind = "error"
     /\ DOMAIN chats # {}

\* C4: when a getOrCreateChat call whose other handle is an e-mail E returns,
\* every chat that existed when it began and was created by a call of the same
\* first identity with a secondary key the directory maps to E is the chat it
\* returns, and it has created nothing.
C4_CanonicalHandleReusesChat ==
  [][\A p \in Procs :
       ( /\ pc[p] \in {"goc_query", "goc_add"} /\ pc'[p] = "done"
         /\ Includes(loc[p].b, "@") )
       => \A c \in hist.call[p].existing :
             ( /\ ~Includes(createdBy[c].b, "@")
               /\ normalizeUserId(createdBy[c].b).id = loc[p].b
               /\ normalizeUserId(createdBy[c].a).id = loc[p].na.id )
             => ( /\ loc'[p].res = IdResult(c)
                  /\ chats' = chats )]_vars

\* C5: when a sendMessage call on chat c returns and no other client has
\* stepped since it began, the unread counter of every participant other than
\* the sender is one more than when the call began, and the sender's is the same.
C5_UnreadIncrementedForOthersOnly ==
  [][\A p \in Procs :
       ( pc[p] = "send_upd" /\ pc'[p] = "done" /\ hist.call[p].alone )
       => \A i \in 1..Len(chats'[loc[p].chatId].participants) :
             LET x == chats'[loc[p].chatId].participants[i]
             IN UnreadOf(chats'[loc[p].chatId], x)
                  = UnreadOr0(hist.call[p].before, safeId(x))
                      + (IF x # loc[p].na.id THEN 1 ELSE 0)]_vars

\* C6: on a chat of A and B that markMessagesAsRead was never called on, once
\* every sendMessage call on it has returned and all its messages were sent by
\* A, B's unread counter is the number of those messages.
C6_ConcurrentSendsAllCounted ==
  \A c \in DOMAIN chats :
     \A A \in Participants(c), B \in Participants(c) :
        ( /\ A # B
          /\ c \notin hist.marked
          /\ ~SendInProgress(c)
          /\ \A m \in MessagesOf(c) : messages[m].senderId = A )
        => UnreadOf(chats[c], B) = Cardinality(MessagesOf(c))

\* C7: the step that inserts a message into an existing chat also sets the
\* chat's lastMessage to its text and adds one to the unread counter of every
\* participant other than the sender.
C7_AppendIsAtomic ==
  [][\A c \in DOMAIN chats :
       ( /\ Len(messages') = Len(messages) + 1
         /\ messages'[Len(messages')].chatId = c )
       => ( /\ chats'[c].lastMessage = messages'[Len(messages')].text
            /\ \A x \in Participants(c) \ {messages'[Len(messages')].senderId} :
                  UnreadOf(chats'[c], x) = UnreadOf(chats[c], x) + 1 )]_vars

\* C8: no stored message belongs to a chat id without a chat document, and a
\* sendMessage call on such an id has returned an error.
C8_UnknownChatRejected ==
  /\ \A m \in DOMAIN messages : messages[m].chatId \in DOMAIN chats
  /\ \A p \in Procs :
        (pc[p] = "done" /\ loc[p].op = "send" /\ loc[p].chatId \notin DOMAIN chats)
        => loc[p].res.kind = "error"

\* C9: no stored message and no chat summary holds a text that is blank after
\* trimming, and a sendMessage call with such a text has returned an error.
C9_BlankTextRejected ==
  /\ \A m \in DOMAIN messages : Trim(messages[m].text) # <<>>
  /\ \A c \in DOMAIN chats : chats[c].lastMessage # <<>> => Trim(chats[c].lastMessage) # <<>>
  /\ \A p \in Procs :
        (pc[p] = "done" /\ loc[p].op = "send" /\ Trim(loc[p].text) = <<>>)
        => loc[p].res.kind = "error"

\* C10: when a markMessagesAsRead call of participant B on a chat returns,
\* B's unread counter on it is 0; and no step of a call that repeats the
\* client's previous call, with no other client stepping in between, changes
\* the chats or the messages.  (A message's read state is the single flag
\* read, so B is never recorded twice.)
C10_MarkReadIdempotent ==
  [][\A p \in Procs :
       /\ ( /\ pc[p] \in {"mark_query", "mark_upd"} /\ pc'[p] = "done"
            /\ loc[p].na.id \in Participants(loc[p].chatId) )
          => UnreadOf(chats'[loc[p].chatId], loc[p].na.id) = 0
       /\ ( \/ /\ pc[p] \in {"mark_query", "mark_upd"}
               /\ (loc'[p] # loc[p] \/ pc'[p] # pc[p])
               /\ hist.call[p].repeat /\ hist.call[p].alone
            \/ /\ Idle(p) /\ loc'[p] # loc[p] /\ loc'[p].op = "mark"
               /\ hist.call[p].quiet
               /\ loc[p].op = "mark"
               /\ loc[p].a = loc'[p].a /\ loc[p].chatId = loc'[p].chatId )
          => (chats' = chats /\ messages' = messages)]_vars

\* C11: a markMessagesAsRead call of participant I on chat c that runs with no
\* other client stepping leaves, when it returns, every message of c not sent
\* by I read and I's unread counter at 0; and none of its steps changes the
\* unread counter of another participant of c, a message sent by I, a message
\* of another chat, or the number of messages.
C11_MarkReadFrame ==
  [][\A p \in Procs :
       LET c == loc'[p].chatId
           I == loc'[p].na.id
       IN /\ ( /\ pc[p] \in {"mark_query", "mark_upd"} /\ pc'[p] = "done"
               /\ hist.call[p].alone )
             => ( /\ \A m \in DOMAIN messages' :
                       (messages'[m].chatId = c /\ messages'[m].senderId # I)
                       => messages'[m].read
                  /\ UnreadOf(chats'[c], I) = 0 )
          /\ ( /\ loc'[p].op = "mark" /\ c \in DOMAIN chats
               /\ \/ Idle(p) /\ loc'[p] # loc[p]
                  \/ /\ pc[p] \in {"mark_query", "mark_upd"} /\ hist.call[p].alone
                     /\ (pc'[p] # pc[p] \/ loc'[p] # loc[p]) )
             => ( /\ \A x \in Participants(c) \ {I} :
                       UnreadOf(chats'[c], x) = UnreadOf(chats[c], x)
                  /\ Len(messages') = Len(messages)
                  /\ \A m \in DOMAIN messages :
                       (messages[m].chatId # c \/ messages[m].senderId = I)
                       => messages'[m] = messages[m] )]_vars

Next ==
  \E p \in Procs :
    \/ \E a \in OwnHandles, b \in RawHandles, product \in Products :
          GetOrCreateChat_Normalize(p, a, b, product)
    \/ GetOrCreateChat_Query(p)
    \/ GetOrCreateChat_AddDoc(p)
    \/ \E chatId \in DOMAIN chats \cup {NoChat}, text \in Texts :
          \E senderId \in CallersOf(chatId) : SendMessage_AddDoc(p, chatId, senderId, text)
    \/ SendMessage_GetDoc(p)
    \/ SendMessage_UpdateDoc(p)
    \/ \E chatId \in DOMAIN chats, input \in FormInputs :
          \E userId \in Participants(chatId) \cap OwnHandles :
             HandleSendMessage(p, chatId, userId, input)
    \/ \E chatId \in DOMAIN chats \cup {NoChat} :
          \E userId \in CallersOf(chatId) : MarkMessagesAsRead_Reset(p, chatId, userId)
    \/ MarkMessagesAsRead_Query(p)
    \/ \E m \in DOMAIN messages : MarkMessagesAsRead_Update(p, m)

Spec == Init /\ [][Next]_vars

(***************************************************************************)
(* Identity resolution on its own: every handle and every listing.         *)
(***************************************************************************)
InitResolve ==
  /\ chats = <<>>
  /\ messages = <<>>
  /\ clock = 0
  /\ pc = [p \in Procs |-> "idle"]
  /\ loc = [p \in Procs |-> NoCall]
  /\ calls = 0
  /\ createdBy = <<>>
  /\ hist = [marked |-> {}, call |-> [p \in Procs |-> NoHist]]
  /\ rawHandle \in Handles
  /\ listing \in Listings
  /\ identity = NoIdentity
  /\ sellerEmail = NoIdentity
  /\ PresenceIdle
  /\ SyncIdle
  /\ SupaIdle /\ PushIdle

NextResolve == NormalizeUserId_Call \/ HandleChatWithSeller_Resolve

SpecResolve == InitResolve /\ [][NextResolve]_vars

\* The handle is in e-mail syntax / is matched by a step of the username chain.
HasEmailSyntax(h) == \E i \in 1..Len(h) : h[i] = "@"

DirectoryMatches(h) ==
  \E i \in 1..Len(Users) :
     \/ Users[i].username = h
     \/ Users[i].sellerId = h
     \/ (Len(h) <= Len(Users[i].email) /\ \A j \in 1..Len(h) : Users[i].email[j] = h[j])

\* C18: a resolved handle that is not in e-mail syntax and that no directory
\* entry matches has the outcome of an error, and its canonical id is not the
\* raw handle.
C18_UnknownHandleRejected ==
  (identity.kind # "none" /\ ~HasEmailSyntax(rawHandle) /\ ~DirectoryMatches(rawHandle))
  => (identity.kind = "error" /\ identity.id # rawHandle)

\* C19: a resolved handle in e-mail syntax has itself as canonical id, with
\* or without a directory entry; when the directory has no entry for it the
\* display name is the part of the handle before the first '@'.
C19_EmailHandleKept ==
  (identity.kind # "none" /\ HasEmailSyntax(rawHandle))
  => ( /\ identity.kind = "ok"
       /\ identity.id = rawHandle
       /\ (\A i \in 1..Len(Users) : Users[i].docId # rawHandle /\ Users[i].email # rawHandle)
          => \E k \in 1..Len(rawHandle) :
                /\ rawHandle[k] = "@"
                /\ \A j \in 1..(k - 1) : rawHandle[j] # "@"
                /\ identity.name = [j \in 1..(k - 1) |-> rawHandle[j]] )

\* C19 witness: an e-mail handle the directory does not know has been resolved
\* to itself with a non-empty display name.
C19_Witness ==
  /\ identity.kind = "ok"
  /\ HasEmailSyntax(rawHandle)
  /\ \A i \in 1..Len(Users) : Users[i].docId # rawHandle /\ Users[i].email # rawHandle
  /\ identity.id = rawHandle
  /\ identity.name # <<>>
  /\ Len(identity.name) < Len(rawHandle) - 1

(***************************************************************************)
(* Typing presence on its own.                                             *)
(***************************************************************************)
StoreIdle ==
  /\ chats = <<>>
  /\ messages = <<>>
  /\ clock = 0
  /\ pc = [p \in Procs |-> "idle"]
  /\ loc = [p \in Procs |-> NoCall]
  /\ calls = 0
  /\ createdBy = <<>>
  /\ hist = [marked |-> {}, call |-> [p \in Procs |-> NoHist]]

InitTyping == StoreIdle /\ ResolveIdle /\ PresenceIdle /\ SyncIdle /\ SupaIdle /\ PushIdle

NextTyping ==
  \E p \in Procs :
    \/ \E val \in InputValues : HandleTyping(p, val)
    \/ TypingTimer_Fires(p)
    \/ ClientStops(p)
    \/ \E chatId \in TypingChats : ListenToTyping(p, chatId)
    \/ ListenToTyping_Cancel(p)
    \/ SetTyping_Send(p)
    \/ ListenToTyping_OnBroadcast(p)

SpecTyping == InitTyping /\ [][NextTyping]_vars

\* What the code's scheduling gives: a subscribed channel sends its event, a
\* delivered event is handled, and the timer of a client that keeps running
\* fires.  Nothing obliges a client to type, to listen or to keep running.
SpecTypingFair ==
  /\ SpecTyping
  /\ \A p \in Procs :
        /\ WF_vars(SetTyping_Send(p))
        /\ WF_vars(ListenToTyping_OnBroadcast(p))
        /\ WF_vars(TypingTimer_Fires(p))

\* C13: whenever the subscribed listener of p2 shows the other participant
\* typing, it later shows it not typing again (or p2 has stopped listening),
\* whatever p1's client does afterwards, stopping included.
C13_TypingExpires ==
  (running["p2"] /\ listening["p2"] /\ remoteIsTyping["p2"])
    ~> (~remoteIsTyping["p2"] \/ ~listening["p2"] \/ ~running["p2"])

\* C17: the handler of a listener with identity self leaves the callback alone
\* on an event self published, and on an event anyone else published on the
\* chat it calls the callback once, with the flag of that event.
C17_TypingReportsOnlyOther ==
  [][\A q \in Procs :
       (listening[q] /\ inbox[q] # <<>> /\ inbox'[q] = Tail(inbox[q]) /\ listening'[q])
       => LET ev == Head(inbox[q])
          IN /\ ev.chatId = selectedChat[q]
             /\ IF ev.uid = uidOf(q)
                THEN heard'[q] = heard[q] /\ remoteIsTyping'[q] = remoteIsTyping[q]
                ELSE heard'[q] = heard[q] + 1 /\ remoteIsTyping'[q] = ev.typing]_vars

\* C17 witness: p1's listener has received an event of its own and one of the
\* other participant, and its callback has run once.
C17_Witness ==
  /\ listening["p1"]
  /\ heard["p1"] = 1
  /\ remoteIsTyping["p1"]
  /\ inbox["p1"] = <<>>
  /\ keystrokes = MaxKeys
  /\ typingTimer["p1"] /\ typingTimer["p2"]
  /\ outbox["p1"] = <<>> /\ outbox["p2"] = <<>>

(***************************************************************************)
(* The chat screens of two signed-in users on a store that holds the chat  *)
(* of a.b@k with c@k and the chat of a.b@k with a_b@k, as two              *)
(* getOrCreateChat calls have left them.                                   *)
(***************************************************************************)
AnyProduct == CHOOSE product \in Products : TRUE

\* What each user writes.
TextOf(p) == IF p = "p1" THEN <<"h">> ELSE <<"y">>

InitSync ==
  /\ chats = (1 :> newChatData(normalizeUserId(HP), normalizeUserId(HC), AnyProduct, 1))
              @@ (2 :> newChatData(normalizeUserId(HP), normalizeUserId(HQ), AnyProduct, 2))
  /\ createdBy = (1 :> [a |-> HP, b |-> HC]) @@ (2 :> [a |-> HP, b |-> HQ])
  /\ clock = 2
  /\ messages = <<>>
  /\ pc = [p \in Procs |-> "idle"]
  /\ loc = [p \in Procs |-> NoCall]
  /\ calls = 0
  /\ hist = [marked |-> {}, call |-> [p \in Procs |-> NoHist]]
  /\ ResolveIdle
  /\ PresenceIdle
  /\ me \in {[p \in Procs |-> IF p = "p1" THEN HP ELSE other] : other \in {HC, HQ}}
  /\ sub = [p \in Procs |-> NoSub]
  /\ SupaIdle /\ PushIdle

NextSync ==
  \E p \in Procs :
    \/ \E chatId \in ChatsContaining(me[p]) :
          SendMessage_AddDoc(p, chatId, me[p], TextOf(p))
    \/ SendMessage_GetDoc(p)
    \/ SendMessage_UpdateDoc(p)
    \/ \E chatId \in ChatsContaining(me[p]) : MarkMessagesAsRead_Reset(p, chatId, me[p])
    \/ MarkMessagesAsRead_Query(p)
    \/ \E m \in DOMAIN messages : MarkMessagesAsRead_Update(p, m)
    \/ SubscribeToChats(p)
    \/ \E chatId \in ChatsContaining(me[p]) : SubscribeToMessages(p, chatId)
    \/ Subscription_OnSnapshot(p)
    \/ Subscription_OnError(p)
    \/ Subscription_Unsubscribe(p)

SpecSync == InitSync /\ [][NextSync]_vars

(***************************************************************************)
(* Clients of the Supabase service sending and marking while one listener  *)
(* is followed.                                                            *)
(***************************************************************************)
InitSupa == StoreIdle /\ ResolveIdle /\ PresenceIdle /\ SyncIdle /\ SupaIdle /\ PushIdle

SupaCall(p) ==
  \/ \E chatId \in DOMAIN supaChats :
       \E i \in 1..Len(supaChats[chatId].users) :
          SendMessage_SelectUsers(p, chatId, supaChats[chatId].users[i], TextOf(p))
  \/ SendMessage_Insert(p)
  \/ SendMessage_UpdateChat(p)

NextSupa ==
  \/ \E p \in Procs :
       \/ SupaCall(p)
       \/ \E messageId \in DOMAIN chat_messages, uid \in Uids : MarkAsRead_Select(p, messageId, uid)
       \/ MarkAsRead_Update(p)
  \/ \E chatId \in DOMAIN supaChats : ListenToMessages(chatId)
  \/ Listener_Select
  \/ ListenToMessages_Then(1)
  \/ ListenToMessages_OnInsert
  \/ RemoveChannel

SpecSupa == InitSupa /\ [][NextSupa]_vars

\* The same clients sending while a listener of the chat list is followed.
NextSupaChats ==
  \/ \E p \in Procs : SupaCall(p)
  \/ \E uid \in Uids : ListenToUserChats(uid)
  \/ Listener_Select
  \/ \E i \in 1..MaxSupaOps : FetchChats_Then(i)
  \/ ListenToUserChats_OnChange
  \/ RemoveChannel

SpecSupaChats == InitSupa /\ [][NextSupaChats]_vars

(***************************************************************************)
(* Claims on the Supabase service.                                         *)
(***************************************************************************)
\* A step in which the followed listener's callback is handed a list.
Delivers == channel'.called /\ (~channel.called \/ channel'.list # channel.list)

\* C12: message order is stable and total: if the sendMessage that appended m1
\* had returned before the sendMessage of m2 was called, then in every list
\* handed to a subscriber of the chat no entry of m2 stands before an entry of m1.
C12_MessageOrderStable ==
  [][(channel'.kind = "messages" /\ Delivers) =>
       \A i, j \in 1..Len(channel'.list) :
          (channel'.list[j].id \in supaHist'.after[channel'.list[i].id]) => j < i]_vars

\* C16: once the cancel handle of a subscription has been called, its callback
\* is not called again, not even by a fetch that was in flight, and the list
\* it was handed last stays as it is.
C16_CancelStopsDelivery ==
  [][/\ (channel.kind # "none" /\ ~channel.open)
          => (channel'.list = channel.list /\ channel'.called = channel.called)
     /\ \A p \in Procs : sub[p].state = "cancelled" => sub'[p] = sub[p]]_vars

\* C20: under every interleaving of sendMessage and markAsRead /
\* markMessagesAsRead calls a stored message keeps its text and its sender, and
\* its read state only grows: a user in read_by stays in read_by, a message
\* marked read stays read.
C20_ReadStateGrows ==
  [][/\ \A m \in DOMAIN chat_messages :
          /\ m \in DOMAIN chat_messages'
          /\ chat_messages'[m].text = chat_messages[m].text
          /\ chat_messages'[m].sender_id = chat_messages[m].sender_id
          /\ \A uid \in Uids : HasElement(chat_messages[m].read_by, uid)
                                  => HasElement(chat_messages'[m].read_by, uid)
     /\ \A m \in DOMAIN messages :
          /\ m \in DOMAIN messages'
          /\ messages'[m].text = messages[m].text
          /\ messages'[m].senderId = messages[m].senderId
          /\ messages[m].read => messages'[m].read]_vars

(***************************************************************************)
(* Claims on the subscriptions of the Firestore service.                   *)
(***************************************************************************)
\* A step in which the callback of p's subscription is handed a list.
SubDelivers(p) == sub'[p].called /\ (~sub[p].called \/ sub'[p].list # sub[p].list)

\* B's sendMessage returns in this step, it ran undisturbed, and chat c holds
\* A's message followed by B's and nothing else; nobody has marked c read.
SecondSendReturns(p, c, A) ==
  /\ pc[p] = "send_upd" /\ pc'[p] = "done"
  /\ hist.call[p].alone
  /\ loc[p].chatId = c
  /\ c \notin hist.marked
  /\ \A q \in Procs \ {p} : Idle(q)
  /\ A \in Participants(c) \ {loc[p].na.id}
  /\ \E i, j \in MessagesOf(c) :
        /\ i < j
        /\ MessagesOf(c) = {i, j}
        /\ messages[i].senderId = A
        /\ messages[j].senderId = loc[p].na.id

\* C14: after A has sent a message to chat c and then B has sent one with text
\* T, both calls complete and A not having marked c read, the chat document
\* has lastMessage T and A's unread counter 1, and a list handed to A's chat
\* list subscription is the chat documents as they are stored.
C14_ReplyShowsOneUnread ==
  [][/\ \A p \in Procs : \A c \in DOMAIN chats : \A A \in Participants(c) :
          SecondSendReturns(p, c, A)
            => (chats'[c].lastMessage = loc[p].text /\ UnreadOf(chats'[c], A) = 1)
     /\ \A p \in Procs :
          (sub'[p].kind = "chats" /\ sub'[p].state = "on" /\ SubDelivers(p))
            => \A i \in 1..Len(sub'[p].list) :
                  sub'[p].list[i] = ChatDoc(sub'[p].list[i].id)]_vars

\* The chats of a list, each as often as it is listed.
ListedIds(list) == {list[i].id : i \in 1..Len(list)}

\* C15: every list handed to the callback of a chat list subscription holds
\* exactly the chats whose participants include the subscribing user, each
\* once, latest lastMessageTime first.
C15_ChatListExactAndSorted ==
  [][/\ \A p \in Procs :
          (sub'[p].kind = "chats" /\ SubDelivers(p)) =>
             LET l == sub'[p].list
             IN /\ ListedIds(l) = ChatsContaining(sub'[p].key)
                /\ Len(l) = Cardinality(ChatsContaining(sub'[p].key))
                /\ \A i, j \in 1..Len(l) : i < j => l[i].lastMessageTime >= l[j].lastMessageTime
     /\ (channel'.kind = "chats" /\ Delivers) =>
             LET l == channel'.list
                 mine == {c \in DOMAIN supaChats : HasElement(supaChats[c].users, channel'.key)}
             IN /\ ListedIds(l) = mine
                /\ Len(l) = Cardinality(mine)
                /\ \A i, j \in 1..Len(l) : i < j => l[i].lastMessageAt >= l[j].lastMessageAt]_vars

(***************************************************************************)
(* Claims on the summary a chat keeps of its messages.                     *)
(***************************************************************************)
\* A markMessagesAsRead / Supabase sendMessage call on chat c has begun and
\* not returned.
MarkInProgress(c) ==
  \E p \in Procs : pc[p] \in {"mark_query", "mark_upd"} /\ loc[p].chatId = c

SupaSendInProgress(c) ==
  \E p \in Procs : supaPc[p] \in {"send_insert", "send_update"} /\ supaLoc[p].chatId = c

\* The last message of the ordered log of chat c.
LastOf(log) == log[Len(log)]

\* C27: whenever no sendMessage is in progress on a chat that has a message,
\* the chat's last-message text is the text of the last message of the chat's
\* ordered message log, whatever the interleaving of the sends before.
C27_LastMessageIsLastOfLog ==
  /\ \A c \in DOMAIN chats :
        (~SendInProgress(c) /\ MessagesOf(c) # {})
          => chats[c].lastMessage = LastOf(ByTimestampAsc(MessagesOf(c))).text
  /\ \A c \in DOMAIN supaChats :
        LET log == ByCreatedAtAsc({m \in DOMAIN chat_messages : chat_messages[m].chat_id = c})
        IN (~SupaSendInProgress(c) /\ log # <<>>)
             => supaChats[c].last_message = LastOf(log).text

\* The messages of chat c that user P has still to read.
UnreadMessagesOf(c, P) ==
  {m \in MessagesOf(c) : messages[m].senderId # P /\ ~messages[m].read}

\* C28: whenever neither sendMessage nor markMessagesAsRead is in progress on a
\* chat, the unread counter of each participant P is the number of the chat's
\* messages that P did not send and has not marked read.
C28_UnreadCountsUnreadMessages ==
  \A c \in DOMAIN chats :
     (~SendInProgress(c) /\ ~MarkInProgress(c))
       => \A P \in Participants(c) :
             UnreadOf(chats[c], P) = Cardinality(UnreadMessagesOf(c, P))

\* The snapshot maps of a chat hold value v for user id, under the user's key.
HasEntry(map, id, v) == safeId(id) \in DOMAIN map /\ map[safeId(id)] = v

\* C29: the chat a getOrCreateChat call creates has the two normalised ids as
\* its participants, an unread counter 0 for each, an empty last message, and
\* for each of the two its display name and its avatar.
C29_NewChatShape ==
  [][\A p \in Procs : \A c \in DOMAIN chats' \ DOMAIN chats :
        pc[p] = "goc_add" /\ pc'[p] = "done" =>
          LET d == chats'[c]  cur == loc[p].na  other == loc[p].nb
          IN /\ d.participants = <<cur.id, other.id>>
             /\ cur.id # other.id
             /\ HasEntry(d.unreadCount, cur.id, 0) /\ HasEntry(d.unreadCount, other.id, 0)
             /\ Cardinality(DOMAIN d.unreadCount) = 2
             /\ d.lastMessage = <<>>
             /\ HasEntry(d.participantNames, cur.id, cur.name)
             /\ HasEntry(d.participantNames, other.id, other.name)
             /\ HasEntry(d.participantAvatars, cur.id, ToUpperCase(cur.name[1]))
             /\ HasEntry(d.participantAvatars, other.id, ToUpperCase(other.name[1]))]_vars

(***************************************************************************)
(* Claims on what the listener of a chat's messages is handed.             *)
(***************************************************************************)
\* C22: every list handed to the callback of listenToMessages is sorted by
\* send time, non-decreasing, also when it was built by appending INSERT
\* events to a fetched list.
C22_DeliveredListSortedByTime ==
  [][(channel'.kind = "messages" /\ Delivers) =>
       \A i, j \in 1..Len(channel'.list) :
          i < j => channel'.list[i].createdAt <= channel'.list[j].createdAt]_vars

(***************************************************************************)
(* The listener of a chat's messages under fair scheduling: a select is    *)
(* answered, a reply and a queued event are handled, and a call in flight  *)
(* gets its next round trip.  Whether a client starts a call or a listener *)
(* and whether the listener is cancelled is left open.  One chat, one      *)
(* message and one reader are enough for what is asked of delivery.        *)
(***************************************************************************)
NextSupaLive ==
  \/ \E p \in Procs :
       \/ /\ supaCalls < MaxLiveOps
          /\ SendMessage_SelectUsers(p, "c1", "u1", TextOf(p))
       \/ SendMessage_Insert(p)
       \/ SendMessage_UpdateChat(p)
       \/ /\ supaCalls < MaxLiveOps
          /\ \E messageId \in DOMAIN chat_messages : MarkAsRead_Select(p, messageId, "u2")
       \/ MarkAsRead_Update(p)
  \/ ListenToMessages("c1")
  \/ Listener_Select
  \/ ListenToMessages_Then(1)
  \/ ListenToMessages_OnInsert
  \/ RemoveChannel

SupaLiveFairness ==
  /\ WF_vars(Listener_Select)
  /\ WF_vars(ListenToMessages_Then(1))
  /\ WF_vars(ListenToMessages_OnInsert)
  /\ \A p \in Procs :
        /\ WF_vars(SendMessage_Insert(p))
        /\ WF_vars(SendMessage_UpdateChat(p))
        /\ WF_vars(MarkAsRead_Update(p))

SpecSupaLive == InitSupa /\ [][NextSupaLive]_vars /\ SupaLiveFairness

\* Message m is in the list the listener was handed last.
Listed(m) == \E i \in 1..Len(channel.list) : channel.list[i].id = m

\* The listener follows the chat of the stored message m.
Follows(m) ==
  /\ channel.kind = "messages" /\ channel.open
  /\ m \in DOMAIN chat_messages
  /\ chat_messages[m].chat_id = channel.key

\* C23: for a listenToMessages subscription that is never cancelled, every
\* message stored in the chat, whenever it was inserted, is eventually in a
\* list handed to the callback and in every list handed over after that.
C23_EveryMessageDelivered ==
  \A m \in 1..MaxLiveOps :
     Follows(m) ~> [](~channel.open \/ (channel.called /\ Listed(m)))

\* The list handed over last shows message m as read by uid.
ListedReadBy(m, uid) ==
  \E i \in 1..Len(channel.list) :
     channel.list[i].id = m /\ HasElement(channel.list[i].readBy, uid)

\* C24: after markAsRead has added a user to read_by of a message of the
\* chat, a client subscribed to the chat that holds the message in its list
\* is eventually handed a list in which the message is read by that user.
C24_ReadStateRedelivered ==
  \A m \in 1..MaxLiveOps :
     (Follows(m) /\ Listed(m) /\ HasElement(chat_messages[m].read_by, "u2"))
        ~> (~channel.open \/ ListedReadBy(m, "u2"))


(***************************************************************************)
(* Typing between two chat screens that have the same chat open: a user    *)
(* types once the other screen's typing listener is subscribed, so that    *)
(* the listener is sent every event.                                       *)
(***************************************************************************)
NextTypingPair ==
  \E p \in Procs :
    \/ ListenToTyping(p, "c1")
    \/ \E val \in InputValues :
         /\ \A q \in Procs \ {p} : listening[q]
         /\ HandleTyping(p, val)
    \/ TypingTimer_Fires(p)
    \/ SetTyping_Send(p)
    \/ ListenToTyping_OnBroadcast(p)

SpecTypingPair == InitTyping /\ [][NextTypingPair]_vars

\* The events of a user that a listener has been sent and not handled yet.
PendingFrom(q, uid) == {i \in 1..Len(inbox[q]) : inbox[q][i].uid = uid}

\* C25: when the last setTyping call of p was the timer's setTyping(false),
\* every event of p has been sent and the listener of the other screen has
\* handled all of them, that screen shows p not typing: the last value
\* delivered is the last one written.
C25_TypingLastWriteWins ==
  \A p \in Procs : \A q \in Procs \ {p} :
    (listening[q] /\ ~typingTimer[p] /\ outbox[p] = <<>> /\ PendingFrom(q, uidOf(p)) = {})
      => ~remoteIsTyping[q]


(***************************************************************************)
(* A chat list listener that is followed to the end: two clients send on   *)
(* chat c1 while u1's listenToUserChats is open; every change of the chats *)
(* table starts a fetch, and the replies of the fetches in flight are      *)
(* handled in the order in which they arrive.                              *)
(***************************************************************************)
NextSupaChatsLive ==
  \/ \E p \in Procs :
       \/ /\ supaCalls < MaxLiveOps
          /\ SendMessage_SelectUsers(p, "c1", "u1", TextOf(p))
       \/ SendMessage_Insert(p)
       \/ SendMessage_UpdateChat(p)
  \/ ListenToUserChats("u1")
  \/ Listener_Select
  \/ \E i \in 1..(MaxLiveOps + 1) : FetchChats_Then(i)
  \/ ListenToUserChats_OnChange
  \/ RemoveChannel

\* A request is answered, a reply in flight arrives, a change event is handled,
\* and a call in flight completes; nothing obliges a client to send or listen.
SupaChatsLiveFairness ==
  /\ WF_vars(Listener_Select)
  /\ WF_vars(\E i \in 1..(MaxLiveOps + 1) : FetchChats_Then(i))
  /\ WF_vars(ListenToUserChats_OnChange)
  /\ \A p \in Procs :
        /\ WF_vars(SendMessage_Insert(p))
        /\ WF_vars(SendMessage_UpdateChat(p))

SpecSupaChatsLive == InitSupa /\ [][NextSupaChatsLive]_vars /\ SupaChatsLiveFairness

\* C26: a chat list listener that is never cancelled ends, once the chats have
\* stopped changing, with a delivered list equal to what the store holds: the
\* user's chats with their current last message and time, in order.
C26_ChatListConverges ==
  <>[]((channel.kind = "chats" /\ channel.open)
         => (channel.called /\ channel.list = SelectResult(channel)))


(***************************************************************************)
(* Maintenance of stored chats: ensureChatParticipantsNormalized of the    *)
(* chat service, which the chat screen calls on the chat it opens, and the *)
(* admin script migrateChatsToUids.  Both read a chat, compute the new     *)
(* participants from what they read, and write them back.                  *)
(***************************************************************************)
\* participant.startsWith('seller_') && !participant.includes('@')
LooksLikeUsername(participant) ==
  IsPrefix(<<"s", "e", "l", "l", "e", "r", "_">>, participant) /\ ~Includes(participant, "@")

\* Lines 395-402: the participant the normalizer puts in place of one it read.
NormalizedParticipant(participant) ==
  IF /\ LooksLikeUsername(participant)
     /\ getUserByUsername(participant) # <<>>
     /\ getUserByUsername(participant)[1].email # <<>>
  THEN getUserByUsername(participant)[1].email
  ELSE participant

\* Line 393: needsFix, set for a username participant whether or not its user is found.
NeedsFix(chatData) ==
  \E i \in 1..Len(chatData.participants) : LooksLikeUsername(chatData.participants[i])

\* Lines 405-424: a map of the document after updates[map.newSafeId] =
\* read[oldSafeId] and updates[map.oldSafeId] = deleteField() for every
\* replaced participant whose old key the map that was read holds.  An old key
\* has no @ and a new key is an e-mail's, so no key is both; of two
\* participants moved to one key the later wins.
MovedKeys(current, read, participants) ==
  LET moved == {i \in 1..Len(participants) :
                  /\ NormalizedParticipant(participants[i]) # participants[i]
                  /\ safeId(participants[i]) \in DOMAIN read}
      olds == {safeId(participants[i]) : i \in moved}
      news == {safeId(NormalizedParticipant(participants[i])) : i \in moved}
      last(k) == CHOOSE i \in moved :
                   /\ safeId(NormalizedParticipant(participants[i])) = k
                   /\ \A j \in moved :
                        safeId(NormalizedParticipant(participants[j])) = k => j <= i
  IN [k \in (DOMAIN current \ olds) \cup news |->
        IF k \in news THEN read[safeId(participants[last(k)])] ELSE current[k]]

\* Lines 375-384: getDoc of the chat; a missing chat ends the call.
EnsureChatParticipantsNormalized_GetDoc(p, chatId) ==
  /\ Idle(p)
  /\ calls < MaxOps
  /\ calls' = calls + 1
  /\ IF chatId \in DOMAIN chats
     THEN /\ pc' = [pc EXCEPT ![p] = "norm_upd"]
          /\ loc' = [loc EXCEPT ![p] =
                       [NoCall EXCEPT !.op = "normalize", !.chatId = chatId,
                          !.chatData = [participants |-> chats[chatId].participants,
                                        unreadCount |-> chats[chatId].unreadCount,
                                        participantNames |-> chats[chatId].participantNames,
                                        participantAvatars |-> chats[chatId].participantAvatars]]]
     ELSE /\ pc' = [pc EXCEPT ![p] = "done"]
          /\ loc' = [loc EXCEPT ![p] =
                       [NoCall EXCEPT !.op = "normalize", !.chatId = chatId, !.res = VoidResult]]
  /\ UNCHANGED <<chats, messages, clock, createdBy>>
  /\ hist' = HistAfter(p)
  /\ UNCHANGED extVars

\* Lines 386-438: replace the username participants in the array that was
\* read and, if there was any, updateDoc with the array and the moved keys.
EnsureChatParticipantsNormalized_UpdateDoc(p) ==
  LET c == loc[p].chatId
      read == loc[p].chatData
  IN /\ pc[p] = "norm_upd"
     /\ IF NeedsFix(read)
        THEN chats' = [chats EXCEPT ![c] =
               [@ EXCEPT
                  !.participants = [i \in 1..Len(read.participants) |->
                                      NormalizedParticipant(read.participants[i])],
                  !.participantNames =
                     MovedKeys(chats[c].participantNames, read.participantNames, read.participants),
                  !.participantAvatars =
                     MovedKeys(chats[c].participantAvatars, read.participantAvatars, read.participants),
                  !.unreadCount =
                     MovedKeys(chats[c].unreadCount, read.unreadCount, read.participants)]]
        ELSE UNCHANGED chats
     /\ pc' = [pc EXCEPT ![p] = "done"]
     /\ loc' = [loc EXCEPT ![p].res = VoidResult, ![p].chatData = NoChatData]
     /\ UNCHANGED <<messages, clock, calls, createdBy>>
     /\ hist' = HistAfter(p)
     /\ UNCHANGED extVars

\* migrate.ts lines 83-99: the script's own lookup, where('email', '==', email);
\* Users holds no uid field, so uid is the document id.
MigrationUser(email) ==
  IF UsersWithEmail(email) = <<>> THEN <<>>
  ELSE << [uid |-> Head(UsersWithEmail(email)).docId,
           name |-> NameOr(<<Head(UsersWithEmail(email))>>, SplitFirst(email, "@")),
           email |-> Head(UsersWithEmail(email)).email] >>

\* migrate.ts line 35: a chat none of whose participants holds an @ is left alone.
AlreadyMigrated(participants) ==
  ~\E i \in 1..Len(participants) : Includes(participants[i], "@")

\* migrate.ts lines 50-59: an e-mail without a user is skipped by continue, the
\* loop goes on with the next participant.
Migratable(participant) == ~Includes(participant, "@") \/ MigrationUser(participant) # <<>>

\* The participants that reach newParticipants.push.
Kept(participants) == SelectSeq(participants, Migratable)

\* migrate.ts lines 44, 52-53: the uid a kept participant is stored under.
MigratedUid(participant) ==
  IF Includes(participant, "@") THEN MigrationUser(participant)[1].uid ELSE participant

\* chatData.map?.[participant] || '' : the maps are read under the participant
\* itself, not under its safeId.
RawEntry(map, participant, none) ==
  IF participant \in DOMAIN map THEN map[participant] ELSE none

\* migrate.ts lines 45, 54: name = participantNames?.[participant] || '' and then
\* name || user.name.
MigratedName(chatData, participant) ==
  IF RawEntry(chatData.participantNames, participant, <<>>) # <<>>
  THEN RawEntry(chatData.participantNames, participant, <<>>)
  ELSE IF Includes(participant, "@") THEN MigrationUser(participant)[1].name ELSE <<>>

\* migrate.ts lines 47, 55: the e-mail itself, then the user's.
MigratedEmail(participant) ==
  IF Includes(participant, "@") THEN MigrationUser(participant)[1].email ELSE <<>>

\* The last kept participant stored under uid whose value is set; values[i]
\* is the value of kept[i].
LastSet(kept, uid, values, none) ==
  CHOOSE i \in 1..Len(kept) :
    /\ MigratedUid(kept[i]) = uid /\ values[i] # none
    /\ \A j \in 1..Len(kept) : (MigratedUid(kept[j]) = uid /\ values[j] # none) => j <= i

\* migrate.ts lines 62-67: a map filled by if (value) map[uid] = value.
MigratedMap(kept, values, none) ==
  [uid \in {MigratedUid(kept[i]) : i \in {j \in 1..Len(kept) : values[j] # none}} |->
     values[LastSet(kept, uid, values, none)]]

\* migrate.ts lines 37-76: what the update writes for a chat that was read.
MigratedChat(current, chatData) ==
  LET kept == Kept(chatData.participants)
      names == [i \in 1..Len(kept) |-> MigratedName(chatData, kept[i])]
      avatars == [i \in 1..Len(kept) |-> RawEntry(chatData.participantAvatars, kept[i], "")]
      emails == [i \in 1..Len(kept) |-> MigratedEmail(kept[i])]
      unread == [i \in 1..Len(kept) |-> RawEntry(chatData.unreadCount, kept[i], 0)]
  IN [participants |-> [i \in 1..Len(kept) |-> MigratedUid(kept[i])],
      participantNames |-> MigratedMap(kept, names, <<>>),
      participantAvatars |-> MigratedMap(kept, avatars, ""),
      participantEmails |-> MigratedMap(kept, emails, <<>>),
      unreadCount |-> MigratedMap(kept, unread, 0),
      productId |-> current.productId,
      productTitle |-> current.productTitle,
      productImage |-> current.productImage,
      lastMessage |-> current.lastMessage,
      lastMessageTime |-> current.lastMessageTime,
      createdAt |-> current.createdAt]

\* migrate.ts lines 27-28: the snapshot of the chats collection.
MigrateChatsToUids_Get(p) ==
  /\ Idle(p)
  /\ calls < MaxOps
  /\ calls' = calls + 1
  /\ pc' = [pc EXCEPT ![p] = IF DOMAIN chats = {} THEN "done" ELSE "migrate"]
  /\ loc' = [loc EXCEPT ![p] =
               [NoCall EXCEPT !.op = "migrate", !.pending = DOMAIN chats,
                              !.chatData = [participants |-> <<>>, unreadCount |-> <<>>,
                                            docs |-> chats],
                              !.res = IF DOMAIN chats = {} THEN VoidResult ELSE NoResult]]
  /\ UNCHANGED <<chats, messages, clock, createdBy>>
  /\ hist' = HistAfter(p)
  /\ UNCHANGED extVars

\* migrate.ts lines 30-79: the next chat of the snapshot, in document-id order:
\* skipped, or updated with what was computed from the snapshot.
MigrateChatsToUids_Update(p) ==
  LET c == Min(loc[p].pending)
      read == loc[p].chatData.docs[c]
      rest == loc[p].pending \ {c}
  IN /\ pc[p] = "migrate"
     /\ IF AlreadyMigrated(read.participants)
        THEN UNCHANGED chats
        ELSE chats' = [chats EXCEPT ![c] = MigratedChat(chats[c], read)]
     /\ pc' = [pc EXCEPT ![p] = IF rest = {} THEN "done" ELSE "migrate"]
     /\ loc' = [loc EXCEPT ![p].pending = rest,
                           ![p].chatData = IF rest = {} THEN NoChatData ELSE @,
                           ![p].res = IF rest = {} THEN VoidResult ELSE @]
     /\ UNCHANGED <<messages, clock, calls, createdBy>>
     /\ hist' = HistAfter(p)
     /\ UNCHANGED extVars

(***************************************************************************)
(* The chat service with its maintenance, on a store that holds one chat   *)
(* from before seller references were resolved: a.b@k with seller_c.       *)
(***************************************************************************)
LegacyChat ==
  newChatData([id |-> HP, name |-> <<"a", "l">>], [id |-> HS, name |-> HS], AnyProduct, 1)

InitMaintain ==
  /\ chats = (1 :> LegacyChat)
  /\ createdBy = (1 :> [a |-> HP, b |-> HS])
  /\ clock = 1
  /\ messages = <<>>
  /\ pc = [p \in Procs |-> "idle"]
  /\ loc = [p \in Procs |-> NoCall]
  /\ calls = 0
  /\ hist = [marked |-> {}, call |-> [p \in Procs |-> NoHist]]
  /\ ResolveIdle /\ PresenceIdle /\ SyncIdle /\ SupaIdle /\ PushIdle

NextMaintain ==
  \E p \in Procs :
    \/ \E a \in OwnHandles, b \in RawHandles : GetOrCreateChat_Normalize(p, a, b, AnyProduct)
    \/ GetOrCreateChat_Query(p)
    \/ GetOrCreateChat_AddDoc(p)
    \/ \E chatId \in DOMAIN chats :
          \E senderId \in CallersOf(chatId) : SendMessage_AddDoc(p, chatId, senderId, TextOf(p))
    \/ SendMessage_GetDoc(p)
    \/ SendMessage_UpdateDoc(p)
    \/ \E chatId \in DOMAIN chats :
          \E userId \in CallersOf(chatId) : MarkMessagesAsRead_Reset(p, chatId, userId)
    \/ MarkMessagesAsRead_Query(p)
    \/ \E m \in DOMAIN messages : MarkMessagesAsRead_Update(p, m)
    \/ \E chatId \in DOMAIN chats : EnsureChatParticipantsNormalized_GetDoc(p, chatId)
    \/ EnsureChatParticipantsNormalized_UpdateDoc(p)
    \/ MigrateChatsToUids_Get(p)
    \/ MigrateChatsToUids_Update(p)

SpecMaintain == InitMaintain /\ [][NextMaintain]_vars

\* C30: every stored chat has exactly two participants, and they are two
\* different identities, whichever of getOrCreateChat, sendMessage,
\* markMessagesAsRead, the normalizer and the migration have run.
C30_TwoDistinctParticipants ==
  \A c \in DOMAIN chats :
    /\ Len(chats[c].participants) = 2
    /\ chats[c].participants[1] # chats[c].participants[2]


(***************************************************************************)
(* Two chat screens that have the chat of a.b@k with c@k open, each with   *)
(* its own listener on the chat's messages, both users sending.  A send is *)
(* followed from the write to its acknowledgement.                         *)
(***************************************************************************)
NextOrder ==
  \E p \in Procs :
    \/ OnSnapshot_Messages(p, 1)
    \/ Subscription_OnSnapshot(p)
    \/ SendMessage_Write(p, 1, me[p], TextOf(p))
    \/ SendMessage_Ack(p)
    \/ SendMessage_GetDoc(p)
    \/ SendMessage_UpdateDoc(p)

SpecOrder == InitSync /\ [][NextOrder]_vars

PositionIn(list, id) == CHOOSE i \in 1..Len(list) : list[i].id = id

\* Two lists show the messages they both hold in the same relative order.
SameOrder(l1, l2) ==
  \A a, b \in ListedIds(l1) \cap ListedIds(l2) :
    PositionIn(l1, a) < PositionIn(l1, b) <=> PositionIn(l2, a) < PositionIn(l2, b)

\* C21: a list handed to a message listener shows the messages in the order
\* in which the list handed to it before showed them and in which the latest
\* list of every other listener of the chat shows them, messages with equal
\* server times included.
C21_SubscribersAgreeOnOrder ==
  [][\A p \in Procs :
       (sub'[p].kind = "messages" /\ SubDelivers(p)) =>
          /\ SameOrder(sub[p].list, sub'[p].list)
          /\ \A q \in Procs \ {p} :
               (sub'[q].kind = "messages" /\ sub'[q].key = sub'[p].key)
                  => SameOrder(sub'[q].list, sub'[p].list)]_vars


(***************************************************************************)
(* Claims on what the lists of listenToMessages hold.                      *)
(***************************************************************************)
\* C35: no list handed to the callback of listenToMessages holds a message id
\* twice, whatever the order of the reply of the initial fetch and the INSERT
\* events, an event of a message the reply already holds included.
C35_NoMessageListedTwice ==
  [][(channel'.kind = "messages" /\ Delivers) =>
       \A i, j \in 1..Len(channel'.list) :
          channel'.list[i].id = channel'.list[j].id => i = j]_vars


(***************************************************************************)
(* Claims on the migration.                                                *)
(***************************************************************************)
\* An e-mail participant of the chat has no user.
UserMissing(participants) ==
  \E i \in 1..Len(participants) : ~Migratable(participants[i])

\* C36: the step of migrateChatsToUids on a chat of which an e-mail
\* participant has no user leaves the chat exactly as it was; a chat it
\* updates keeps the number of its participants, and every participant's
\* unread count is found under the participant's new id.
C36_MigrationSkipsOrKeeps ==
  [][\A p \in Procs :
       (pc[p] = "migrate" /\ loc'[p].pending # loc[p].pending) =>
          LET c == Min(loc[p].pending)
              read == loc[p].chatData.docs[c]
          IN IF UserMissing(read.participants)
             THEN chats'[c] = chats[c]
             ELSE chats'[c] # chats[c] =>
                    /\ Len(chats'[c].participants) = Len(chats[c].participants)
                    /\ \A i \in 1..Len(chats[c].participants) :
                         UnreadOr0(chats'[c].unreadCount, chats'[c].participants[i])
                           = UnreadOr0(chats[c].unreadCount, safeId(chats[c].participants[i]))]_vars


\* A step of the migration on a chat of its snapshot.
MigrationStep == \E p \in Procs : pc[p] = "migrate" /\ loc'[p].pending # loc[p].pending

\* C33: no step of the running application (getOrCreateChat, sendMessage,
\* markMessagesAsRead, the chat screen's ensureChatParticipantsNormalized)
\* changes the participants of a stored chat, the names and avatars kept per
\* participant, or the keys of its unread counts; only the migration does.
C33_RuntimeKeepsParticipants ==
  [][~MigrationStep =>
       \A c \in DOMAIN chats :
          /\ chats'[c].participants = chats[c].participants
          /\ chats'[c].participantNames = chats[c].participantNames
          /\ chats'[c].participantAvatars = chats[c].participantAvatars
          /\ DOMAIN chats'[c].unreadCount = DOMAIN chats[c].unreadCount]_vars


(***************************************************************************)
(* Claims on the product a chat is about.                                  *)
(***************************************************************************)
Topic(chat) == <<chat.productId, chat.productTitle, chat.productImage>>

\* The stored chats that hold both ids.
ChatsOfPair(a, b) == {c \in DOMAIN chats : a \in Participants(c) /\ b \in Participants(c)}

\* C31: no step changes the product id, title or image of a stored chat; and
\* the query of a getOrCreateChat whose two users have a chat returns one of
\* their chats and stores nothing, whatever product the call was given.
C31_TopicImmutable ==
  [][/\ \A c \in DOMAIN chats : Topic(chats'[c]) = Topic(chats[c])
     /\ \A p \in Procs :
          (pc[p] = "goc_query" /\ pc'[p] # "goc_query"
             /\ ChatsOfPair(loc[p].na.id, loc[p].nb.id) # {})
          => /\ pc'[p] = "done"
             /\ loc'[p].res.kind = "id"
             /\ loc'[p].res.id \in ChatsOfPair(loc[p].na.id, loc[p].nb.id)
             /\ DOMAIN chats' = DOMAIN chats]_vars

\* C31 witness: a chat about one product has had a message sent on it, one
\* getOrCreateChat has returned it, and the query of a getOrCreateChat of the
\* same two users about another product is about to be answered.
C31_Witness ==
  \E p, q \in Procs : \E c \in DOMAIN chats :
    /\ pc[p] = "goc_query"
    /\ c \in ChatsOfPair(loc[p].na.id, loc[p].nb.id)
    /\ loc[p].product.id # chats[c].productId
    /\ chats[c].lastMessage # <<>>
    /\ pc[q] = "done" /\ loc[q].op = "goc" /\ loc[q].res = IdResult(c)


(***************************************************************************)
(* Claims on identity resolution as the calls of getOrCreateChat use it.   *)
(***************************************************************************)
\* The handles of call record c paired with what they were resolved to.
Resolved(c) == {<<c.a, c.na>>, <<c.b, c.nb>>}

DeviceOf(id) == <<"d">> \o id

\* The fcm_tokens collections the trigger can meet: a.b@k has a token, and
\* c@k has a token, a document without token, or no document.
TokenStores ==
  { (HP :> "token") @@ (HC :> "token"),
    (HP :> "token") @@ (HC :> "none"),
    (HP :> "token") }

TokenOf(store, id) == IF store[id] = "token" THEN DeviceOf(id) ELSE <<>>

\* A find that takes the first participant, whoever sent the message.
Find_First(participants, senderId) ==
  IF participants = <<>> THEN <<>> ELSE <<participants[1]>>

\* Line 64: participants.find(id => id !== senderId); <<>> stands for undefined.
Find(participants, senderId) ==
  LET others == SelectSeq(participants, LAMBDA id : id # senderId)
  IN IF others = <<>> THEN <<>> ELSE <<others[1]>>

NoInvocation == [pc |-> "end", recipientId |-> <<>>, token |-> <<>>]

\* Lines 45-68: the fields of the message, the chat document, the recipient.
OnMessageCreated_ChatGet(m) ==
  LET message == messages[m]
      recipient == Find(chats[message.chatId].participants, message.senderId)
  IN /\ m \in DOMAIN messages \ DOMAIN trigger
     /\ trigger' = [n \in DOMAIN trigger \cup {m} |->
                      IF n # m THEN trigger[n]
                      ELSE IF message.senderId = <<>> \/ message.text = <<>> THEN NoInvocation
                      ELSE IF message.chatId \notin DOMAIN chats THEN NoInvocation
                      ELSE IF recipient = <<>> THEN NoInvocation
                      ELSE [pc |-> "token", recipientId |-> recipient[1], token |-> <<>>]]
     /\ UNCHANGED <<fcm_tokens, sent>>
     /\ UNCHANGED <<storeVars, resolveVars, presenceVars, syncVars, supaVars>>

\* Lines 70-77: the recipient's document of fcm_tokens and its token.
OnMessageCreated_TokenGet(m) ==
  /\ m \in DOMAIN trigger
  /\ trigger[m].pc = "token"
  /\ trigger' = [trigger EXCEPT ![m] =
                   IF trigger[m].recipientId \notin DOMAIN fcm_tokens THEN NoInvocation
                   ELSE IF TokenOf(fcm_tokens, trigger[m].recipientId) = <<>> THEN NoInvocation
                   ELSE [@ EXCEPT !.pc = "send",
                                  !.token = TokenOf(fcm_tokens, trigger[m].recipientId)]]
  /\ UNCHANGED <<fcm_tokens, sent>>
  /\ UNCHANGED <<storeVars, resolveVars, presenceVars, syncVars, supaVars>>

SendOutcomes == {"sent", "messaging/registration-token-not-registered", "unavailable"}

\* Lines 79-103: one send; a token the messaging service does not know is deleted.
OnMessageCreated_Send(m) ==
  /\ m \in DOMAIN trigger
  /\ trigger[m].pc = "send"
  /\ \E outcome \in SendOutcomes :
       /\ sent' = IF outcome = "sent"
                  THEN Append(sent, [message |-> m, recipientId |-> trigger[m].recipientId,
                                     token |-> trigger[m].token])
                  ELSE sent
       /\ fcm_tokens' = IF outcome = "messaging/registration-token-not-registered"
                        THEN [id \in DOMAIN fcm_tokens \ {trigger[m].recipientId} |->
                                fcm_tokens[id]]
                        ELSE fcm_tokens
  /\ trigger' = [trigger EXCEPT ![m].pc = "end"]
  /\ UNCHANGED <<storeVars, resolveVars, presenceVars, syncVars, supaVars>>

InitPush ==
  /\ StoreIdle /\ ResolveIdle /\ PresenceIdle /\ SyncIdle /\ SupaIdle
  /\ fcm_tokens \in TokenStores
  /\ trigger = <<>>
  /\ sent = <<>>

NextPush ==
  \/ \E p \in Procs :
       \/ \E a \in OwnHandles, b \in RawHandles : GetOrCreateChat_Normalize(p, a, b, AnyProduct)
       \/ GetOrCreateChat_Query(p)
       \/ GetOrCreateChat_AddDoc(p)
       \/ \E chatId \in DOMAIN chats \cup {NoChat} :
             \E senderId \in CallersOf(chatId) : SendMessage_AddDoc(p, chatId, senderId, TextOf(p))
       \/ SendMessage_GetDoc(p)
       \/ SendMessage_UpdateDoc(p)
       \/ MigrateChatsToUids_Get(p)
       \/ MigrateChatsToUids_Update(p)
  \/ \E m \in DOMAIN messages : OnMessageCreated_ChatGet(m)
  \/ \E m \in DOMAIN messages : OnMessageCreated_TokenGet(m)
  \/ \E m \in DOMAIN messages : OnMessageCreated_Send(m)

SpecPush == InitPush /\ [][NextPush]_vars

====
